---- MODULE Spec2Model ----
(***************************************************************************)
(* A model of capf's parsing core: the token Reader (reader.py), the       *)
(* Adaptor value binders (adaptors.py), the validators (validators.py),    *)
(* the grammar declarations and builder calls (core.py) and the Parser     *)
(* with its three consumers (parser.py).                                   *)
(*                                                                         *)
(* A token (a Python str) is a sequence of one-character strings, so that  *)
(* startswith, removeprefix, "=" in token, split("=", 1) and slicing are   *)
(* computed on the characters as the code computes them.                   *)
(***************************************************************************)
EXTENDS Integers, Sequences, FiniteSets, TLC

VARIABLES
    reader,         \* the token Reader: [tokens, start, end, cursor]
    ctor,           \* outcome of Reader.__init__: "ok" or "ValueError"
    ret,            \* outcome of the last Reader call made by the caller
    seen,           \* history: the token get() first returned from each cursor
    command,        \* Parser.command: the name of the command parsed
    areader,        \* ArgumentConsumer.areader, a Reader over aseq
    adaptors,       \* the Adaptor objects bound to the declarations, by id
    pc,             \* where the parse stands
    double_hyphen,  \* the local double_hyphen of _parse_leaf / _parse_node
    result,         \* the ParserResult returned: its command, or None
    signal,         \* the exception that ended the parse: its type and message
    parses,         \* the number of Parser.parse calls made so far
    entry,          \* history: adaptors and areader when parse was entered
    calls,          \* history: the adaptor invocations of the current parse
    earlier,        \* history: the adaptor invocations of the earlier parses
    built,          \* a Command under construction by the builder calls
    made,           \* outcome of Parser(built): none yet, or what __init__ left
    driver,         \* an Adaptor invoked directly by a caller
    applied,        \* history: the calls made on driver and how each ended
    twin,           \* a Driver of drivers.py given the same calls as driver
    twin_raised,    \* the exception the last call of twin raised, if any
    cv,             \* a StrChoiceValidator: choices, ignore_case, norm_case
    arg,            \* the string passed to cv
    out             \* what cv(arg) gave: a value or ValueError

vars == <<reader, ctor, ret, seen, command, areader, adaptors, pc,
          double_hyphen, result, signal, parses, entry, calls, earlier,
          built, made, driver, applied, twin, twin_raised, cv, arg, out>>

readerVars == <<reader, ctor, ret, seen>>
parserVars == <<command, areader, adaptors, pc, double_hyphen, result, signal,
                parses, entry, calls, earlier>>
setupVars == <<built, made>>
driverVars == <<driver, applied, twin, twin_raised>>
validatorVars == <<cv, arg, out>>

----------------------------------------------------------------------------
(* Bounds of the model. *)

MaxLen == 3
MaxArgv == 3

----------------------------------------------------------------------------
(* Python values. *)

PyNone == [t |-> "None", v |-> 0]
PyStr(s) == [t |-> "str", v |-> s]
PyBool(b) == [t |-> "bool", v |-> b]
PyInt(n) == [t |-> "int", v |-> n]
PyList(l) == [t |-> "list", v |-> l]

\* an exception: its type, its message (by category) and its status attribute
Signal(type, message) == [type |-> type, message |-> message, status |-> PyNone]

\* no exception
NoSignal == Signal("none", "none")

\* exceptions.py: the default of CliMessage's status parameter
DefaultStatus == 0

\* exceptions.py: CliMessage(label)
CliMessage(label) ==
    [type |-> "CliMessage", message |-> label, status |-> PyInt(DefaultStatus)]

\* An optional int argument: <<>> is None, <<n>> is n.
NoneArg == <<>>
Some(n) == <<n>>

SeqsUpTo(S, n) == UNION {[1..k -> S] : k \in 0..n}

\* s[i:] and s[:i] of a Python sequence, 0 <= i <= len(s).
SliceFrom(s, i) == SubSeq(s, i + 1, Len(s))
SliceTo(s, i) == SubSeq(s, 1, i)

----------------------------------------------------------------------------
(* reader.py: Reader *)

NoReader == [tokens |-> <<>>, start |-> 0, end |-> 0, cursor |-> 0]

\* __init__ without the check of start against end
ReaderNewNoRange(toks, s, e) ==
    LET start0 == IF s = NoneArg THEN 0 ELSE s[1]
        end0 == IF e = NoneArg THEN Len(toks) ELSE e[1]
    IN  IF s # NoneArg /\ s[1] < 0
          THEN [exc |-> "ValueError", r |-> NoReader]
        ELSE IF e # NoneArg /\ e[1] > Len(toks)
          THEN [exc |-> "ValueError", r |-> NoReader]
        ELSE [exc |-> "none",
              r |-> [tokens |-> toks, start |-> start0, end |-> end0,
                     cursor |-> start0]]

\* Reader.__init__(tokens, start=s, end=e)
ReaderNew(toks, s, e) ==
    LET start0 == IF s = NoneArg THEN 0 ELSE s[1]
        end0 == IF e = NoneArg THEN Len(toks) ELSE e[1]
    IN  IF s # NoneArg /\ s[1] < 0
          THEN [exc |-> "ValueError", r |-> NoReader]
        ELSE IF e # NoneArg /\ e[1] > Len(toks)
          THEN [exc |-> "ValueError", r |-> NoReader]
        ELSE IF start0 > end0
          THEN [exc |-> "ValueError", r |-> NoReader]
        ELSE [exc |-> "none",
              r |-> [tokens |-> toks, start |-> start0, end |-> end0,
                     cursor |-> start0]]

\* Reader(tokens)
ReaderOf(toks) == ReaderNew(toks, NoneArg, NoneArg).r

\* Reader.is_eof
ReaderIsEof(r) == r.cursor = r.end

\* get written as a destructive read: the token is removed from the sequence
ReaderGetPop(r) ==
    IF r.cursor = r.end
      THEN [exc |-> "IndexError", token |-> <<>>, r |-> r]
      ELSE [exc |-> "none",
            token |-> r.tokens[r.cursor + 1],
            r |-> [r EXCEPT !.tokens = SliceTo(r.tokens, r.cursor) \o
                                        SliceFrom(r.tokens, r.cursor + 1),
                            !.end = @ - 1]]

\* get bounded by len(tokens) instead of the end bound
ReaderGetNoCheck(r) ==
    IF r.cursor >= Len(r.tokens)
      THEN [exc |-> "IndexError", token |-> <<>>, r |-> r]
      ELSE [exc |-> "none",
            token |-> r.tokens[r.cursor + 1],
            r |-> [r EXCEPT !.cursor = @ + 1]]

\* Reader.get: the token at the cursor, and the cursor advanced
ReaderGet(r) ==
    IF r.cursor = r.end
      THEN [exc |-> "IndexError", token |-> <<>>, r |-> r]
      ELSE [exc |-> "none",
            token |-> r.tokens[r.cursor + 1],
            r |-> [r EXCEPT !.cursor = @ + 1]]

\* put that also gives up the token stepped back over: the end bound moves
ReaderPutShrink(r) ==
    IF r.cursor = r.start
      THEN [exc |-> "IndexError", r |-> r]
      ELSE [exc |-> "none", r |-> [r EXCEPT !.cursor = @ - 1, !.end = @ - 1]]

\* Reader.put
ReaderPut(r) ==
    IF r.cursor = r.start
      THEN [exc |-> "IndexError", r |-> r]
      ELSE [exc |-> "none", r |-> [r EXCEPT !.cursor = @ - 1]]

----------------------------------------------------------------------------
(* Python str operations on character sequences. *)

\* s.startswith(prefix)
StartsWith(s, prefix) ==
    Len(s) >= Len(prefix) /\ SubSeq(s, 1, Len(prefix)) = prefix

\* s.removeprefix(prefix)
RemovePrefix(s, prefix) ==
    IF StartsWith(s, prefix) THEN SliceFrom(s, Len(prefix)) ELSE s

\* c in s
Contains(s, c) == \E i \in 1..Len(s) : s[i] = c

\* s.index(c), 0-based, for c in s
IndexOf(s, c) == (CHOOSE i \in 1..Len(s) :
                     s[i] = c /\ \A j \in 1..(i - 1) : s[j] # c) - 1

\* the split made at the last c (rsplit)
SplitLast(s, c) ==
    LET i == CHOOSE k \in 1..Len(s) :
                 s[k] = c /\ \A j \in (k + 1)..Len(s) : s[j] # c
    IN  [name |-> SliceTo(s, i - 1), value |-> SliceFrom(s, i)]

\* s.split(c, 1) for c in s: the text before the first c and the text after it
SplitOnce(s, c) ==
    [name |-> SliceTo(s, IndexOf(s, c)), value |-> SliceFrom(s, IndexOf(s, c) + 1)]

Range(s) == {s[i] : i \in 1..Len(s)}

RECURSIVE Flatten(_)
\* the members of a list of groups, in order
Flatten(groups) ==
    IF groups = <<>> THEN <<>> ELSE Head(groups) \o Flatten(Tail(groups))

----------------------------------------------------------------------------
(* validators.py: StrValidator and IntValidator *)

Digits == {"0", "1", "2", "3", "4", "5", "6", "7", "8", "9"}

DigitValue(c) ==
    CASE c = "0" -> 0 [] c = "1" -> 1 [] c = "2" -> 2 [] c = "3" -> 3
      [] c = "4" -> 4 [] c = "5" -> 5 [] c = "6" -> 6 [] c = "7" -> 7
      [] c = "8" -> 8 [] c = "9" -> 9

RECURSIVE StripLeft(_)
StripLeft(s) == IF s # <<>> /\ Head(s) = " " THEN StripLeft(Tail(s)) ELSE s

RECURSIVE StripRight(_)
StripRight(s) ==
    IF s # <<>> /\ s[Len(s)] = " " THEN StripRight(SliceTo(s, Len(s) - 1)) ELSE s

\* the digits of an int literal: digits, single underscores between them
IsDigits(s) ==
    /\ s # <<>>
    /\ s[1] \in Digits
    /\ s[Len(s)] \in Digits
    /\ \A i \in 1..Len(s) : s[i] \in Digits \cup {"_"}
    /\ \A i \in 1..(Len(s) - 1) : ~(s[i] = "_" /\ s[i + 1] = "_")

RECURSIVE DigitsValue(_)
DigitsValue(s) ==
    IF s = <<>> THEN 0
    ELSE IF s[Len(s)] = "_" THEN DigitsValue(SliceTo(s, Len(s) - 1))
    ELSE 10 * DigitsValue(SliceTo(s, Len(s) - 1)) + DigitValue(s[Len(s)])

\* int(value): surrounding blanks, an optional sign, the digits
ParseInt(value) ==
    LET t == StripRight(StripLeft(value))
        signed == t # <<>> /\ t[1] \in {"-", "+"}
        body == IF signed THEN Tail(t) ELSE t
    IN  IF IsDigits(body)
          THEN [ok |-> TRUE,
                v |-> IF signed /\ t[1] = "-" THEN 0 - DigitsValue(body)
                      ELSE DigitsValue(body)]
          ELSE [ok |-> FALSE, v |-> 0]

\* Validator.__call__: a value, or ValueError
Validate(validator, value) ==
    CASE validator = "Str" -> [exc |-> "none", v |-> PyStr(value)]
      [] validator = "Int" ->
            IF ParseInt(value).ok
              THEN [exc |-> "none", v |-> PyInt(ParseInt(value).v)]
              ELSE [exc |-> "ValueError", v |-> PyNone]

----------------------------------------------------------------------------
(* validators.py: ChoiceValidator and StrChoiceValidator *)

UpperLetters ==
    <<"A", "B", "C", "D", "E", "F", "G", "H", "I", "J", "K", "L", "M",
      "N", "O", "P", "Q", "R", "S", "T", "U", "V", "W", "X", "Y", "Z">>

LowerLetters ==
    <<"a", "b", "c", "d", "e", "f", "g", "h", "i", "j", "k", "l", "m",
      "n", "o", "p", "q", "r", "s", "t", "u", "v", "w", "x", "y", "z">>

\* str.lower() of one character
LowerChar(c) ==
    IF \E i \in 1..Len(UpperLetters) : UpperLetters[i] = c
      THEN LowerLetters[CHOOSE i \in 1..Len(UpperLetters) : UpperLetters[i] = c]
      ELSE c

\* s.lower()
Lower(s) == [i \in 1..Len(s) |-> LowerChar(s[i])]

\* StrChoiceValidator(choices, ignore_case=..., norm_case=...):
\* ChoiceValidator.__init__ rejects an empty choices
StrChoiceValidator(choices, ignore_case, norm_case) ==
    IF choices = <<>>
      THEN [exc |-> "ValueError", choices |-> <<>>, ignore_case |-> ignore_case,
            norm_case |-> norm_case]
      ELSE [exc |-> "none", choices |-> choices, ignore_case |-> ignore_case,
            norm_case |-> norm_case]

\* ChoiceValidator.__call__ with StrValidator as the inner validator
ChoiceCall(v, value) ==
    LET value_parsed == Validate("Str", value).v
    IN  IF value_parsed.v \notin Range(v.choices)
          THEN [exc |-> "ValueError", v |-> PyNone]
          ELSE [exc |-> "none", v |-> value_parsed]

\* __call__ that takes the last of the choices equal to the value ignoring
\* case
StrChoiceCallLast(v, value) ==
    IF ~v.ignore_case THEN ChoiceCall(v, value)
    ELSE LET value_parsed == Validate("Str", value).v
             value_lower == Lower(value_parsed.v)
             choices_lower == [i \in 1..Len(v.choices) |-> Lower(v.choices[i])]
         IN  IF value_lower \notin Range(choices_lower)
               THEN [exc |-> "ValueError", v |-> PyNone]
               ELSE LET index == CHOOSE i \in 1..Len(choices_lower) :
                                     /\ choices_lower[i] = value_lower
                                     /\ \A j \in (i + 1)..Len(choices_lower) :
                                           choices_lower[j] # value_lower
                    IN  [exc |-> "none",
                         v |-> IF v.norm_case THEN PyStr(v.choices[index])
                               ELSE value_parsed]

\* StrChoiceValidator.__call__
StrChoiceCall(v, value) ==
    IF ~v.ignore_case THEN ChoiceCall(v, value)
    ELSE LET value_parsed == Validate("Str", value).v
             value_lower == Lower(value_parsed.v)
             choices_lower == [i \in 1..Len(v.choices) |-> Lower(v.choices[i])]
         IN  IF value_lower \notin Range(choices_lower)
               THEN [exc |-> "ValueError", v |-> PyNone]
               ELSE LET index == IndexOf(choices_lower, value_lower)
                    IN  [exc |-> "none",
                         v |-> IF v.norm_case THEN PyStr(v.choices[index + 1])
                               ELSE value_parsed]

----------------------------------------------------------------------------
(* adaptors.py: ValueSource, Adaptor and its subclasses *)

DEFAULT == "DEFAULT"
CLI == "CLI"
ENV == "ENV"

\* Adaptor.__init__, ValueAdaptor.__init__, FlagAdaptor.__init__
AdaptorNew(kind, num_values, validator, default_value) ==
    [kind |-> kind, num_values |-> num_values, validator |-> validator,
     value_parsed |-> default_value, count |-> 0, value_source |-> DEFAULT]

ScalarAdaptor(validator) == AdaptorNew("Scalar", 1, validator, PyNone)
ListAdaptor(validator) == AdaptorNew("List", 1, validator, PyNone)
OnFlagAdaptor == AdaptorNew("OnFlag", 0, "none", PyBool(FALSE))
OffFlagAdaptor == AdaptorNew("OffFlag", 0, "none", PyBool(TRUE))
CountFlagAdaptor == AdaptorNew("CountFlag", 0, "none", PyInt(0))
HelpAdaptor == AdaptorNew("Help", 0, "none", PyNone)
VersionAdaptor == AdaptorNew("Version", 0, "none", PyNone)

\* Adaptor.present
Present(a) == a.count > 0

\* bookkeeping that records the source of the first call only
CountedFirstSource(a, source) ==
    [a EXCEPT !.count = @ + 1,
              !.value_source = IF a.count = 0 THEN source ELSE @]

\* the bookkeeping every __call__ ends with: _count += 1, _value_source = source
Counted(a, source) == [a EXCEPT !.count = @ + 1, !.value_source = source]

\* what a call leaves: the adaptor, and the exception raised (or NoSignal)
Outcome(a, exc) == [a |-> a, exc |-> exc]

\* ScalarAdaptor.__call__
ScalarCall(a, values, source) ==
    IF Len(values) # 1 THEN Outcome(a, Signal("AssertionError", ""))
    ELSE LET r == Validate(a.validator, values[1])
         IN  IF r.exc # "none" THEN Outcome(a, Signal(r.exc, ""))
             ELSE Outcome(Counted([a EXCEPT !.value_parsed = r.v], source),
                          NoSignal)

\* a list adaptor that appends to the list it was given as its default
ListCallExtend(a, values, source) ==
    IF Len(values) # 1 THEN Outcome(a, Signal("AssertionError", ""))
    ELSE LET b == IF a.value_parsed = PyNone
                    THEN [a EXCEPT !.value_parsed = PyList(<<>>)] ELSE a
             r == Validate(a.validator, values[1])
         IN  IF r.exc # "none" THEN Outcome(b, Signal(r.exc, ""))
             ELSE Outcome(Counted([b EXCEPT !.value_parsed =
                                      PyList(Append(b.value_parsed.v, r.v))],
                                  source),
                          NoSignal)

\* ListAdaptor.__call__: the list is reset before the validator runs
ListCall(a, values, source) ==
    IF Len(values) # 1 THEN Outcome(a, Signal("AssertionError", ""))
    ELSE LET b == IF a.value_parsed = PyNone \/ a.count = 0
                    THEN [a EXCEPT !.value_parsed = PyList(<<>>)] ELSE a
             r == Validate(a.validator, values[1])
         IN  IF r.exc # "none" THEN Outcome(b, Signal(r.exc, ""))
             ELSE Outcome(Counted([b EXCEPT !.value_parsed =
                                      PyList(Append(b.value_parsed.v, r.v))],
                                  source),
                          NoSignal)

\* OnFlagAdaptor.__call__ and OffFlagAdaptor.__call__
FlagCall(a, values, source, to) ==
    IF Len(values) # 0 THEN Outcome(a, Signal("AssertionError", ""))
    ELSE Outcome(Counted([a EXCEPT !.value_parsed = PyBool(to)], source),
                 NoSignal)

\* a count flag that starts again from 0 on every call
CountFlagCallReset(a, values, source) ==
    IF Len(values) # 0 THEN Outcome(a, Signal("AssertionError", ""))
    ELSE Outcome(Counted([a EXCEPT !.value_parsed = PyInt(1)], source),
                 NoSignal)

\* CountFlagAdaptor.__call__
CountFlagCall(a, values, source) ==
    IF Len(values) # 0 THEN Outcome(a, Signal("AssertionError", ""))
    ELSE LET b == IF a.value_parsed = PyNone \/ a.count = 0
                    THEN [a EXCEPT !.value_parsed = PyInt(0)] ELSE a
         IN  Outcome(Counted([b EXCEPT !.value_parsed = PyInt(@.v + 1)], source),
                     NoSignal)

\* a message adaptor that records the call and returns
MessageCallSilent(a, values, source, label) ==
    IF Len(values) # 0 THEN Outcome(a, Signal("AssertionError", ""))
    ELSE Outcome(Counted(a, source), NoSignal)

\* HelpAdaptor.__call__ and VersionAdaptor.__call__: raise CliMessage(label)
MessageCall(a, values, source, label) ==
    IF Len(values) # 0 THEN Outcome(a, Signal("AssertionError", ""))
    ELSE Outcome(Counted(a, source), CliMessage(label))

\* adaptor(values, source=source)
AdaptorCall(a, values, source) ==
    CASE a.kind = "Scalar" -> ScalarCall(a, values, source)
      [] a.kind = "List" -> ListCall(a, values, source)
      [] a.kind = "OnFlag" -> FlagCall(a, values, source, TRUE)
      [] a.kind = "OffFlag" -> FlagCall(a, values, source, FALSE)
      [] a.kind = "CountFlag" -> CountFlagCall(a, values, source)
      [] a.kind = "Help" -> MessageCall(a, values, source, "help")
      [] a.kind = "Version" -> MessageCall(a, values, source, "version")

----------------------------------------------------------------------------
(* drivers.py: SourceType, Source, Driver and its subclasses.              *)
(* A member of SourceType is written by its name, as the members of        *)
(* ValueSource are.                                                        *)

\* Source.__init__; from_default(), from_cli(name) and from_env(name) are
\* Source("", "DEFAULT"), Source(name, "CLI") and Source(name, "ENV")
Source(name, type) == [name |-> name, type |-> type]

\* Driver.__init__, ValueDriver.__init__, FlagDriver.__init__
DriverNew(kind, num_values, validator, default_value) ==
    [kind |-> kind, num_values |-> num_values, validator |-> validator,
     value_parsed |-> default_value, count |-> 0,
     source |-> Source("", "DEFAULT")]

\* ScalarDriver.__call__
ScalarDriverCall(d, values, source) ==
    IF Len(values) # 1 THEN Outcome(d, Signal("AssertionError", ""))
    ELSE LET r == Validate(d.validator, values[1])
         IN  IF r.exc # "none" THEN Outcome(d, Signal(r.exc, ""))
             ELSE Outcome([d EXCEPT !.value_parsed = r.v, !.count = @ + 1,
                                    !.source = source],
                          NoSignal)

\* a list driver that keeps the list it holds when its first call comes
ListDriverCallKeep(d, values, source) ==
    IF Len(values) # 1 THEN Outcome(d, Signal("AssertionError", ""))
    ELSE LET e == IF d.value_parsed = PyNone
                    THEN [d EXCEPT !.value_parsed = PyList(<<>>)] ELSE d
             r == Validate(d.validator, values[1])
         IN  IF r.exc # "none" THEN Outcome(e, Signal(r.exc, ""))
             ELSE Outcome([e EXCEPT !.value_parsed =
                                       PyList(Append(e.value_parsed.v, r.v)),
                                    !.count = @ + 1, !.source = source],
                          NoSignal)

\* ListDriver.__call__: value_parsed is set to [] before the validator runs
ListDriverCall(d, values, source) ==
    IF Len(values) # 1 THEN Outcome(d, Signal("AssertionError", ""))
    ELSE LET e == IF d.value_parsed = PyNone \/ d.count = 0
                    THEN [d EXCEPT !.value_parsed = PyList(<<>>)] ELSE d
             r == Validate(d.validator, values[1])
         IN  IF r.exc # "none" THEN Outcome(e, Signal(r.exc, ""))
             ELSE Outcome([e EXCEPT !.value_parsed =
                                       PyList(Append(e.value_parsed.v, r.v)),
                                    !.count = @ + 1, !.source = source],
                          NoSignal)

\* OnFlagDriver.__call__ (to = True) and OffFlagDriver.__call__ (to = False)
FlagDriverCall(d, values, source, to) ==
    IF Len(values) # 0 THEN Outcome(d, Signal("AssertionError", ""))
    ELSE Outcome([d EXCEPT !.value_parsed = PyBool(to), !.count = @ + 1,
                           !.source = source],
                 NoSignal)

\* CountFlagDriver.__call__
CountFlagDriverCall(d, values, source) ==
    IF Len(values) # 0 THEN Outcome(d, Signal("AssertionError", ""))
    ELSE LET e == IF d.value_parsed = PyNone \/ d.count = 0
                    THEN [d EXCEPT !.value_parsed = PyInt(0)] ELSE d
         IN  Outcome([e EXCEPT !.value_parsed = PyInt(@.v + 1),
                               !.count = @ + 1, !.source = source],
                     NoSignal)

\* HelpDriver.__call__ and VersionDriver.__call__: raise CliMessage(label)
MessageDriverCall(d, values, source, label) ==
    IF Len(values) # 0 THEN Outcome(d, Signal("AssertionError", ""))
    ELSE Outcome([d EXCEPT !.count = @ + 1, !.source = source],
                 CliMessage(label))

\* driver(values, source=source)
DriverCall(d, values, source) ==
    CASE d.kind = "Scalar" -> ScalarDriverCall(d, values, source)
      [] d.kind = "List" -> ListDriverCall(d, values, source)
      [] d.kind = "OnFlag" -> FlagDriverCall(d, values, source, TRUE)
      [] d.kind = "OffFlag" -> FlagDriverCall(d, values, source, FALSE)
      [] d.kind = "CountFlag" -> CountFlagDriverCall(d, values, source)
      [] d.kind = "Help" -> MessageDriverCall(d, values, source, "help")
      [] d.kind = "Version" -> MessageDriverCall(d, values, source, "version")

----------------------------------------------------------------------------
(* core.py: Argument, Option, Command *)

\* Argument.__init__ (Argument._parse_decl rejects the empty decl)
Argument(id, decl, adaptor, multiple, required) ==
    IF decl = <<>>
      THEN [exc |-> "CliSetupError", id |-> id]
      ELSE [exc |-> "none", id |-> id, argument |-> decl, adaptor |-> adaptor,
            multiple |-> multiple, required |-> required]

RECURSIVE ParseDecls(_, _, _)
\* Option._parse_decls: the loop over decls, with the lists built so far
ParseDecls(decls, long_options, short_options) ==
    IF decls = <<>>
      THEN [exc |-> "none", long_options |-> long_options,
            short_options |-> short_options]
    ELSE LET decl == Head(decls)
         IN  IF StartsWith(decl, <<"-", "-">>)
               THEN IF Len(SliceFrom(decl, 2)) < 2
                      THEN [exc |-> "CliSetupError", long_options |-> <<>>,
                            short_options |-> <<>>]
                      ELSE ParseDecls(Tail(decls),
                                      Append(long_options, SliceFrom(decl, 2)),
                                      short_options)
             ELSE IF StartsWith(decl, <<"-">>)
               THEN IF Len(SliceFrom(decl, 1)) # 1
                      THEN [exc |-> "CliSetupError", long_options |-> <<>>,
                            short_options |-> <<>>]
                      ELSE ParseDecls(Tail(decls), long_options,
                                      Append(short_options, decl[2]))
             ELSE [exc |-> "CliSetupError", long_options |-> <<>>,
                   short_options |-> <<>>]

\* Option.__init__
Option(id, decls, adaptor, multiple, required) ==
    LET d == IF decls = <<>>
               THEN [exc |-> "CliSetupError", long_options |-> <<>>,
                     short_options |-> <<>>]
               ELSE ParseDecls(decls, <<>>, <<>>)
    IN  [exc |-> d.exc, id |-> id, long_options |-> d.long_options,
         short_options |-> d.short_options, adaptor |-> adaptor,
         multiple |-> multiple, required |-> required]

\* Command.__init__
Command(name) ==
    [name |-> name, command_groups |-> <<>>, argument_groups |-> <<>>,
     option_groups |-> <<>>]

\* group.add(member) on the last group of a list of groups
AddToLast(groups, member) ==
    [groups EXCEPT ![Len(groups)] = Append(@, member)]

\* Command.add_command_group
AddCommandGroup(c) == [c EXCEPT !.command_groups = Append(@, <<>>)]

\* Command.add_command: sub is the id of the new subcommand
AddCommand(c, sub) ==
    LET d == IF c.command_groups = <<>> THEN AddCommandGroup(c) ELSE c
    IN  [d EXCEPT !.command_groups = AddToLast(@, sub)]

\* Command.add_argument_group
AddArgumentGroup(c) == [c EXCEPT !.argument_groups = Append(@, <<>>)]

\* Command.add_argument
AddArgument(c, argument) ==
    LET d == IF c.argument_groups = <<>> THEN AddArgumentGroup(c) ELSE c
    IN  [d EXCEPT !.argument_groups = AddToLast(@, argument)]

\* Command.add_option_group
AddOptionGroup(c) == [c EXCEPT !.option_groups = Append(@, <<>>)]

\* Command.add_option
AddOption(c, option) ==
    LET d == IF c.option_groups = <<>> THEN AddOptionGroup(c) ELSE c
    IN  [d EXCEPT !.option_groups = AddToLast(@, option)]

\* Command.is_leaf
IsLeaf(c) == c.command_groups = <<>>

----------------------------------------------------------------------------
(* The command trees parsed: app (interior) with the leaves build, test and *)
(* -d, and the leaves cmd, switch and copy.                                *)

DoubleHyphen == <<"-", "-">>
Hyphen == <<"-">>
LongDecl(name) == DoubleHyphen \o name
ShortDecl(char) == <<"-", char>>

NameCount == <<"c", "o", "u", "n", "t">>
NameName == <<"n", "a", "m", "e">>
NameHelp == <<"h", "e", "l", "p">>
NameFoo == <<"f", "o", "o">>
NameAll == <<"a", "l", "l">>
NameJobs == <<"j", "o", "b", "s">>
NameKeyEqVal == <<"k", "=", "v">>
NameBuild == <<"b", "u", "i", "l", "d">>
NameTest == <<"t", "e", "s", "t">>
NameDash == <<"-", "d">>

\* cmd --count|-c (count flag) --name|-n <str, required>
CmdCommand ==
    AddOption(
    AddOption(Command(<<"c", "m", "d">>),
        Option("count", <<LongDecl(NameCount), ShortDecl("c")>>, "count",
               TRUE, FALSE)),
        Option("name", <<LongDecl(NameName), ShortDecl("n")>>, "name",
               TRUE, TRUE))

\* app [-v] [-h|--help] [-V] {build,test,-d}
AppCommand ==
    AddCommand(
    AddCommand(
    AddCommand(
    AddOption(
    AddOption(
    AddOption(Command(<<"a", "p", "p">>),
        Option("verbose", <<ShortDecl("v")>>, "verbose", TRUE, FALSE)),
        Option("help", <<ShortDecl("h"), LongDecl(NameHelp)>>, "help",
               TRUE, FALSE)),
        Option("version", <<ShortDecl("V")>>, "version", TRUE, FALSE)),
        "build"),
        "test"),
        "-d")

\* build [-a|--all] [-b] [--foo|-f <str>] [--k=v <str>] [-h] <target>
BuildCommand ==
    AddArgument(
    AddOption(
    AddOptionGroup(
    AddOption(
    AddOption(
    AddOption(
    AddOption(Command(NameBuild),
        Option("all", <<ShortDecl("a"), LongDecl(NameAll)>>, "all",
               TRUE, FALSE)),
        Option("brief", <<ShortDecl("b")>>, "brief", TRUE, FALSE)),
        Option("foo", <<LongDecl(NameFoo), ShortDecl("f")>>, "foo",
               TRUE, FALSE)),
        Option("kv", <<LongDecl(NameKeyEqVal)>>, "kv", TRUE, FALSE))),
        Option("help", <<ShortDecl("h")>>, "help", TRUE, FALSE)),
        Argument("target", <<"t", "a", "r", "g", "e", "t">>, "target",
                 FALSE, TRUE))

\* test [-j|--jobs <int>] <first> [<files>...]
TestCommand ==
    AddArgument(
    AddArgumentGroup(
    AddArgument(
    AddOption(Command(NameTest),
        Option("jobs", <<ShortDecl("j"), LongDecl(NameJobs)>>, "jobs",
               TRUE, FALSE)),
        Argument("first", <<"f", "i", "r", "s", "t">>, "first", FALSE, TRUE))),
        Argument("files", <<"f", "i", "l", "e", "s">>, "files", TRUE, FALSE))

\* switch <on>: a positional argument bound to a zero-value flag adaptor
SwitchCommand ==
    AddArgument(Command(<<"s", "w", "i", "t", "c", "h">>),
        Argument("on", <<"o", "n">>, "on", FALSE, TRUE))

\* copy <src> [<items>...] <dest>: an argument declared after a multiple one
CopyCommand ==
    AddArgument(
    AddArgumentGroup(
    AddArgument(
    AddArgument(Command(<<"c", "o", "p", "y">>),
        Argument("src", <<"s", "r", "c">>, "src", FALSE, TRUE)),
        Argument("items", <<"i", "t", "e", "m", "s">>, "items", TRUE, FALSE))),
        Argument("dest", <<"d", "e", "s", "t">>, "dest", FALSE, TRUE))

\* -d: a subcommand of app whose name begins with a hyphen
DashCommand == Command(NameDash)

\* run [-C|--dir <str>] {build,test}: an interior command with an option
\* that takes a value
RunCommand ==
    AddCommand(
    AddCommand(
    AddOption(Command(<<"r", "u", "n">>),
        Option("dir", <<ShortDecl("C"), LongDecl(<<"d", "i", "r">>)>>, "dir",
               TRUE, FALSE)),
        "build"),
        "test")

CommandIds == {"cmd", "app", "build", "test", "switch", "copy", "run"}

Commands(id) ==
    CASE id = "cmd" -> CmdCommand
      [] id = "app" -> AppCommand
      [] id = "build" -> BuildCommand
      [] id = "test" -> TestCommand
      [] id = "switch" -> SwitchCommand
      [] id = "copy" -> CopyCommand
      [] id = "run" -> RunCommand
      [] id = "-d" -> DashCommand

\* the adaptors bound to a command's declarations, as constructed
AdaptorsOf(id) ==
    CASE id = "cmd" ->
            [count |-> CountFlagAdaptor, name |-> ScalarAdaptor("Str")]
      [] id = "app" ->
            [verbose |-> OnFlagAdaptor, help |-> HelpAdaptor,
             version |-> VersionAdaptor]
      [] id = "build" ->
            [all |-> OnFlagAdaptor, brief |-> OffFlagAdaptor,
             foo |-> ScalarAdaptor("Str"), kv |-> ScalarAdaptor("Str"),
             help |-> HelpAdaptor, target |-> ScalarAdaptor("Str")]
      [] id = "test" ->
            [jobs |-> ScalarAdaptor("Int"), first |-> ScalarAdaptor("Str"),
             files |-> ListAdaptor("Str")]
      [] id = "switch" -> [on |-> OnFlagAdaptor]
      [] id = "copy" ->
            [src |-> ScalarAdaptor("Str"), items |-> ListAdaptor("Str"),
             dest |-> ScalarAdaptor("Str")]
      [] id = "run" -> [dir |-> ScalarAdaptor("Str")]
      [] id = "-d" -> <<>>

----------------------------------------------------------------------------
(* parser.py: the consumers and the Parser.                                *)
(* A parse state st is [reader, areader, adaptors, pc, double_hyphen,      *)
(* result, signal, calls]; pc is "raised" once an exception propagates.    *)

ParserResult(subcommand) == [t |-> "Command", v |-> subcommand]

\* a raise that first undoes the parse: cursors back at their start bounds,
\* the bookkeeping of every adaptor cleared
RaiseRolledBack(st, type, message) ==
    [st EXCEPT !.pc = "raised", !.signal = Signal(type, message),
               !.reader.cursor = st.reader.start,
               !.areader.cursor = st.areader.start,
               !.adaptors = [id \in DOMAIN st.adaptors |->
                                [st.adaptors[id] EXCEPT !.count = 0,
                                                        !.value_source = DEFAULT]]]

\* raise type(message)
Raise(st, type, message) ==
    [st EXCEPT !.pc = "raised", !.signal = Signal(type, message)]

\* an exception raised by a callee propagates
Propagate(st, exc) == [st EXCEPT !.pc = "raised", !.signal = exc]

\* return ParserResult(...)
Return(st, res) == [st EXCEPT !.pc = "returned", !.result = res]

\* CommandConsumer._build: a later subcommand of the same name replaces an
\* earlier one
CommandBuild(c) ==
    LET subs == Flatten(c.command_groups)
        names == {Commands(subs[i]).name : i \in 1..Len(subs)}
    IN  [n \in names |->
            subs[CHOOSE i \in 1..Len(subs) :
                    /\ Commands(subs[i]).name = n
                    /\ \A j \in (i + 1)..Len(subs) : Commands(subs[j]).name # n]]

\* ArgumentConsumer._build
ArgumentBuild(c) == Flatten(c.argument_groups)

RECURSIVE AllShort(_)
AllShort(options) ==
    IF options = <<>> THEN <<>>
    ELSE Head(options).short_options \o AllShort(Tail(options))

RECURSIVE AllLong(_)
AllLong(options) ==
    IF options = <<>> THEN <<>>
    ELSE Head(options).long_options \o AllLong(Tail(options))

\* _build without the conflict checks: a later declaration of a spelling
\* replaces an earlier one
OptionBuildOverwrite(c) ==
    LET options == Flatten(c.option_groups)
        Last(spelling, short) ==
            options[CHOOSE i \in 1..Len(options) :
                /\ spelling \in Range(IF short THEN options[i].short_options
                                      ELSE options[i].long_options)
                /\ \A j \in (i + 1)..Len(options) :
                      spelling \notin Range(IF short THEN options[j].short_options
                                            ELSE options[j].long_options)]
    IN  [exc |-> "none",
         smap |-> [x \in Range(AllShort(options)) |-> Last(x, TRUE)],
         lmap |-> [x \in Range(AllLong(options)) |-> Last(x, FALSE)]]

\* OptionConsumer._build: ValueError when a spelling is declared twice
OptionBuild(c) ==
    LET options == Flatten(c.option_groups)
        shorts == AllShort(options)
        longs == AllLong(options)
        Owner(spelling, short) ==
            CHOOSE o \in Range(options) :
                spelling \in Range(IF short THEN o.short_options
                                   ELSE o.long_options)
    IN  IF \/ Cardinality(Range(shorts)) # Len(shorts)
           \/ Cardinality(Range(longs)) # Len(longs)
          THEN [exc |-> "ValueError", smap |-> <<>>, lmap |-> <<>>]
          ELSE [exc |-> "none",
                smap |-> [x \in Range(shorts) |-> Owner(x, TRUE)],
                lmap |-> [x \in Range(longs) |-> Owner(x, FALSE)]]

\* __init__ without the check of command groups against argument groups
ParserNewUnchecked(c) ==
    IF OptionBuild(c).exc # "none"
      THEN [exc |-> "ValueError", areader |-> NoReader]
    ELSE [exc |-> "none", areader |-> ReaderOf(ArgumentBuild(c))]

\* Parser.__init__
ParserNew(c) ==
    IF c.command_groups # <<>> /\ c.argument_groups # <<>>
      THEN [exc |-> "ValueError", areader |-> NoReader]
    ELSE IF OptionBuild(c).exc # "none"
      THEN [exc |-> "ValueError", areader |-> NoReader]
    ELSE [exc |-> "none", areader |-> ReaderOf(ArgumentBuild(c))]

\* no Parser has been constructed
NoParser == [exc |-> "unmade", areader |-> NoReader]

\* adaptor(values, source=ValueSource.CLI), for the token at index at
Invoke(st, id, values, at) ==
    LET r == AdaptorCall(st.adaptors[id], values, CLI)
        st1 == [st EXCEPT !.adaptors[id] = r.a,
                          !.calls = Append(@, [adaptor |-> id,
                                               values |-> values, at |-> at])]
    IN  IF r.exc = NoSignal THEN st1 ELSE Propagate(st1, r.exc)

\* consume whose caller goes on with the loop instead of returning
CommandConsumeContinue(st, c, token) ==
    IF token \in DOMAIN CommandBuild(c)
      THEN [st EXCEPT !.result = ParserResult(CommandBuild(c)[token])]
      ELSE Raise(st, "CliParsingError", "Unknown command")

\* CommandConsumer.consume
CommandConsume(st, c, token) ==
    IF token \in DOMAIN CommandBuild(c)
      THEN Return(st, ParserResult(CommandBuild(c)[token]))
      ELSE Raise(st, "CliParsingError", "Unknown command")

\* consume that puts back the token reader, not the argument reader
ArgumentConsumePutToken(st, token, at) ==
    IF ReaderIsEof(st.areader)
      THEN Raise(st, "CliParsingError", "Too many arguments")
    ELSE LET g == ReaderGet(st.areader)
             argument == g.token
             st1 == Invoke([st EXCEPT !.areader = g.r], argument.adaptor,
                           <<token>>, at)
         IN  IF st1.pc = "raised" THEN st1
             ELSE IF argument.multiple
               THEN [st1 EXCEPT !.reader = ReaderPut(@).r]
             ELSE st1

\* consume that never puts a multiple argument back
ArgumentConsumeAdvance(st, token, at) ==
    IF ReaderIsEof(st.areader)
      THEN Raise(st, "CliParsingError", "Too many arguments")
    ELSE LET g == ReaderGet(st.areader)
             argument == g.token
         IN  Invoke([st EXCEPT !.areader = g.r], argument.adaptor,
                    <<token>>, at)

\* ArgumentConsumer.consume
ArgumentConsume(st, token, at) ==
    IF ReaderIsEof(st.areader)
      THEN Raise(st, "CliParsingError", "Too many arguments")
    ELSE LET g == ReaderGet(st.areader)
             argument == g.token
             st1 == Invoke([st EXCEPT !.areader = g.r], argument.adaptor,
                           <<token>>, at)
         IN  IF st1.pc = "raised" THEN st1
             ELSE IF argument.multiple
               THEN [st1 EXCEPT !.areader = ReaderPut(@).r]
             ELSE st1

\* an unknown spelling resolved without an error
GetLongOptionLenient(c, name) ==
    IF name \in DOMAIN OptionBuild(c).lmap
      THEN [exc |-> "none", option |-> OptionBuild(c).lmap[name]]
      ELSE [exc |-> "none", option |-> Flatten(c.option_groups)[1]]

\* OptionConsumer._get_long_option
GetLongOption(c, name) ==
    IF name \in DOMAIN OptionBuild(c).lmap
      THEN [exc |-> "none", option |-> OptionBuild(c).lmap[name]]
      ELSE [exc |-> "CliParsingError", option |-> <<>>]

\* OptionConsumer._get_short_option
GetShortOption(c, name) ==
    IF name \in DOMAIN OptionBuild(c).smap
      THEN [exc |-> "none", option |-> OptionBuild(c).smap[name]]
      ELSE [exc |-> "CliParsingError", option |-> <<>>]

\* consume_long binding the empty string where no value follows
ConsumeLongEmptyValue(st, c, token0, at) ==
    LET token == RemovePrefix(token0, DoubleHyphen)
    IN  IF Contains(token, "=")
          THEN LET name == SplitOnce(token, "=").name
                   value == SplitOnce(token, "=").value
                   o == GetLongOption(c, name)
               IN  IF o.exc # "none"
                     THEN Raise(st, o.exc, "Unknown option")
                   ELSE IF st.adaptors[o.option.adaptor].num_values = 0
                     THEN Raise(st, "CliParsingError", "does not take a value")
                   ELSE Invoke(st, o.option.adaptor, <<value>>, at)
          ELSE LET o == GetLongOption(c, token)
               IN  IF o.exc # "none"
                     THEN Raise(st, o.exc, "Unknown option")
                   ELSE IF st.adaptors[o.option.adaptor].num_values = 0
                     THEN Invoke(st, o.option.adaptor, <<>>, at)
                   ELSE IF ReaderIsEof(st.reader)
                     THEN Invoke(st, o.option.adaptor, <<(<<>>)>>, at)
                   ELSE Invoke([st EXCEPT !.reader = ReaderGet(@).r],
                               o.option.adaptor,
                               <<ReaderGet(st.reader).token>>, at)

\* consume_long invoking a zero-value option that was given =value, the
\* value dropped
ConsumeLongDropValue(st, c, token0, at) ==
    LET token == RemovePrefix(token0, DoubleHyphen)
    IN  IF Contains(token, "=")
          THEN LET name == SplitOnce(token, "=").name
                   value == SplitOnce(token, "=").value
                   o == GetLongOption(c, name)
               IN  IF o.exc # "none"
                     THEN Raise(st, o.exc, "Unknown option")
                   ELSE IF st.adaptors[o.option.adaptor].num_values = 0
                     THEN Invoke(st, o.option.adaptor, <<>>, at)
                   ELSE Invoke(st, o.option.adaptor, <<value>>, at)
          ELSE LET o == GetLongOption(c, token)
               IN  IF o.exc # "none"
                     THEN Raise(st, o.exc, "Unknown option")
                   ELSE IF st.adaptors[o.option.adaptor].num_values = 0
                     THEN Invoke(st, o.option.adaptor, <<>>, at)
                   ELSE IF ReaderIsEof(st.reader)
                     THEN Raise(st, "CliParsingError", "requires a value")
                   ELSE Invoke([st EXCEPT !.reader = ReaderGet(@).r],
                               o.option.adaptor,
                               <<ReaderGet(st.reader).token>>, at)

\* consume_long taking the next token as the value only when that token
\* does not begin with a hyphen
ConsumeLongGuarded(st, c, token0, at) ==
    LET token == RemovePrefix(token0, DoubleHyphen)
    IN  IF Contains(token, "=")
          THEN LET name == SplitOnce(token, "=").name
                   value == SplitOnce(token, "=").value
                   o == GetLongOption(c, name)
               IN  IF o.exc # "none"
                     THEN Raise(st, o.exc, "Unknown option")
                   ELSE IF st.adaptors[o.option.adaptor].num_values = 0
                     THEN Raise(st, "CliParsingError", "does not take a value")
                   ELSE Invoke(st, o.option.adaptor, <<value>>, at)
          ELSE LET o == GetLongOption(c, token)
               IN  IF o.exc # "none"
                     THEN Raise(st, o.exc, "Unknown option")
                   ELSE IF st.adaptors[o.option.adaptor].num_values = 0
                     THEN Invoke(st, o.option.adaptor, <<>>, at)
                   ELSE IF \/ ReaderIsEof(st.reader)
                           \/ StartsWith(ReaderGet(st.reader).token, Hyphen)
                     THEN Raise(st, "CliParsingError", "requires a value")
                   ELSE Invoke([st EXCEPT !.reader = ReaderGet(@).r],
                               o.option.adaptor,
                               <<ReaderGet(st.reader).token>>, at)

\* OptionConsumer.consume_long
ConsumeLong(st, c, token0, at) ==
    LET token == RemovePrefix(token0, DoubleHyphen)
    IN  IF Contains(token, "=")
          THEN LET name == SplitOnce(token, "=").name
                   value == SplitOnce(token, "=").value
                   o == GetLongOption(c, name)
               IN  IF o.exc # "none"
                     THEN Raise(st, o.exc, "Unknown option")
                   ELSE IF st.adaptors[o.option.adaptor].num_values = 0
                     THEN Raise(st, "CliParsingError", "does not take a value")
                   ELSE Invoke(st, o.option.adaptor, <<value>>, at)
          ELSE LET o == GetLongOption(c, token)
               IN  IF o.exc # "none"
                     THEN Raise(st, o.exc, "Unknown option")
                   ELSE IF st.adaptors[o.option.adaptor].num_values = 0
                     THEN Invoke(st, o.option.adaptor, <<>>, at)
                   ELSE IF ReaderIsEof(st.reader)
                     THEN Raise(st, "CliParsingError", "requires a value")
                   ELSE Invoke([st EXCEPT !.reader = ReaderGet(@).r],
                               o.option.adaptor,
                               <<ReaderGet(st.reader).token>>, at)

RECURSIVE ShortLoopDetached(_, _, _, _, _)
\* the loop of consume_short taking the value of an option from the next
\* outer token even when characters remain in the cluster
ShortLoopDetached(st, c, token, creader, at) ==
    IF ReaderIsEof(creader) THEN st
    ELSE LET name == ReaderGet(creader).token
             cr == ReaderGet(creader).r
             o == GetShortOption(c, name)
         IN  IF o.exc # "none"
               THEN Raise(st, o.exc, "Unknown option")
             ELSE IF st.adaptors[o.option.adaptor].num_values = 0
               THEN LET st1 == Invoke(st, o.option.adaptor, <<>>, at)
                    IN  IF st1.pc = "raised" THEN st1
                        ELSE ShortLoopDetached(st1, c, token, cr, at)
             ELSE IF ReaderIsEof(st.reader)
               THEN Raise(st, "CliParsingError", "requires a value")
             ELSE Invoke([st EXCEPT !.reader = ReaderGet(@).r],
                         o.option.adaptor, <<ReaderGet(st.reader).token>>, at)

RECURSIVE ShortLoop(_, _, _, _, _)
\* the while loop of OptionConsumer.consume_short, from the state of creader
ShortLoop(st, c, token, creader, at) ==
    IF ReaderIsEof(creader) THEN st
    ELSE LET name == ReaderGet(creader).token
             cr == ReaderGet(creader).r
             o == GetShortOption(c, name)
         IN  IF o.exc # "none"
               THEN Raise(st, o.exc, "Unknown option")
             ELSE IF st.adaptors[o.option.adaptor].num_values = 0
               THEN LET st1 == Invoke(st, o.option.adaptor, <<>>, at)
                    IN  IF st1.pc = "raised" THEN st1
                        ELSE ShortLoop(st1, c, token, cr, at)
             ELSE IF ~ReaderIsEof(cr)
               THEN Invoke(st, o.option.adaptor,
                           <<SliceFrom(token, cr.cursor)>>, at)
             ELSE IF ReaderIsEof(st.reader)
               THEN Raise(st, "CliParsingError", "requires a value")
             ELSE Invoke([st EXCEPT !.reader = ReaderGet(@).r],
                         o.option.adaptor, <<ReaderGet(st.reader).token>>, at)

\* consume_short leaving the loop after the first character
ConsumeShortOnce(st, c, token0, at) ==
    LET token == RemovePrefix(token0, Hyphen)
    IN  ShortLoop(st, c, token, ReaderNew(token, NoneArg, Some(1)).r, at)

\* consume_short refusing a token with no character after the hyphen
ConsumeShortStrict(st, c, token0, at) ==
    LET token == RemovePrefix(token0, Hyphen)
    IN  IF token = <<>> THEN Raise(st, "CliParsingError", "Unknown option")
        ELSE ShortLoop(st, c, token, ReaderOf(token), at)

\* OptionConsumer.consume_short
ConsumeShort(st, c, token0, at) ==
    LET token == RemovePrefix(token0, Hyphen)
    IN  ShortLoop(st, c, token, ReaderOf(token), at)

\* a dispatch that takes a lone "-" for a bare token
DispatchHyphenBare(st, c, token, at) ==
    IF StartsWith(token, DoubleHyphen) THEN ConsumeLong(st, c, token, at)
    ELSE IF StartsWith(token, Hyphen) /\ token # Hyphen
      THEN ConsumeShort(st, c, token, at)
    ELSE IF IsLeaf(c) THEN ArgumentConsume(st, token, at)
    ELSE CommandConsume(st, c, token)

\* the body of the scanning loops for a token that is not "--": an option,
\* or else a bare token
Dispatch(st, c, token, at) ==
    IF StartsWith(token, DoubleHyphen) THEN ConsumeLong(st, c, token, at)
    ELSE IF StartsWith(token, Hyphen) THEN ConsumeShort(st, c, token, at)
    ELSE IF IsLeaf(c) THEN ArgumentConsume(st, token, at)
    ELSE CommandConsume(st, c, token)

\* Parser._parse_leaf, first loop: one iteration, or the return at the end
LeafScan(st, c) ==
    IF ReaderIsEof(st.reader) THEN Return(st, PyNone)
    ELSE LET token == ReaderGet(st.reader).token
             st1 == [st EXCEPT !.reader = ReaderGet(@).r]
         IN  IF token = DoubleHyphen
               THEN [st1 EXCEPT !.double_hyphen = TRUE, !.pc = "leaf_args"]
               ELSE Dispatch(st1, c, token, st1.reader.cursor)

\* the second loop of _parse_leaf dispatching like the first
LeafArgsScanning(st, c) ==
    IF ReaderIsEof(st.reader) THEN Return(st, PyNone)
    ELSE LET token == ReaderGet(st.reader).token
             st1 == [st EXCEPT !.reader = ReaderGet(@).r]
         IN  Dispatch(st1, c, token, st1.reader.cursor)

\* the second loop of _parse_leaf dropping every further "--"
LeafArgsSkipSentinel(st, c) ==
    IF ReaderIsEof(st.reader) THEN Return(st, PyNone)
    ELSE LET token == ReaderGet(st.reader).token
             st1 == [st EXCEPT !.reader = ReaderGet(@).r]
         IN  IF token = DoubleHyphen THEN st1
             ELSE ArgumentConsume(st1, token, st1.reader.cursor)

\* Parser._parse_leaf, second loop (after "--"): one iteration, or the return
LeafArgs(st, c) ==
    IF ReaderIsEof(st.reader) THEN Return(st, PyNone)
    ELSE LET token == ReaderGet(st.reader).token
             st1 == [st EXCEPT !.reader = ReaderGet(@).r]
         IN  ArgumentConsume(st1, token, st1.reader.cursor)

\* the first loop of _parse_node putting a subcommand name back before it
\* returns
NodeScanUnget(st, c) ==
    IF ReaderIsEof(st.reader) THEN Return(st, PyNone)
    ELSE LET token == ReaderGet(st.reader).token
             st1 == [st EXCEPT !.reader = ReaderGet(@).r]
         IN  IF token = DoubleHyphen
               THEN [st1 EXCEPT !.double_hyphen = TRUE, !.pc = "node_command"]
             ELSE LET st2 == Dispatch(st1, c, token, st1.reader.cursor)
                  IN  IF st2.pc = "returned"
                        THEN [st2 EXCEPT !.reader = ReaderPut(@).r]
                        ELSE st2

\* Parser._parse_node, first loop: one iteration, or the return at the end
NodeScan(st, c) ==
    IF ReaderIsEof(st.reader) THEN Return(st, PyNone)
    ELSE LET token == ReaderGet(st.reader).token
             st1 == [st EXCEPT !.reader = ReaderGet(@).r]
         IN  IF token = DoubleHyphen
               THEN [st1 EXCEPT !.double_hyphen = TRUE, !.pc = "node_command"]
               ELSE Dispatch(st1, c, token, st1.reader.cursor)

\* the second loop of _parse_node dispatching like the first
NodeCommandScanning(st, c) ==
    IF ReaderIsEof(st.reader) THEN Return(st, PyNone)
    ELSE LET token == ReaderGet(st.reader).token
             st1 == [st EXCEPT !.reader = ReaderGet(@).r]
         IN  Dispatch(st1, c, token, st1.reader.cursor)

\* the second loop of _parse_node waiting at end of input for a token
NodeCommandWait(st, c) ==
    IF ReaderIsEof(st.reader) THEN st
    ELSE LET token == ReaderGet(st.reader).token
             st1 == [st EXCEPT !.reader = ReaderGet(@).r]
         IN  CommandConsume(st1, c, token)

\* Parser._parse_node after "--": the next token is the subcommand
NodeCommand(st, c) ==
    IF ReaderIsEof(st.reader) THEN Return(st, PyNone)
    ELSE LET token == ReaderGet(st.reader).token
             st1 == [st EXCEPT !.reader = ReaderGet(@).r]
         IN  CommandConsume(st1, c, token)

\* a parse that begins by resetting the bookkeeping of every adaptor
EnterFresh(c, rd, ar, ads) ==
    [reader |-> rd, areader |-> ar,
     adaptors |-> [id \in DOMAIN ads |->
                      [ads[id] EXCEPT !.count = 0, !.value_source = DEFAULT]],
     pc |-> IF IsLeaf(c) THEN "leaf" ELSE "node",
     double_hyphen |-> FALSE, result |-> PyNone, signal |-> NoSignal,
     calls |-> <<>>]

\* a parse that begins by moving the argument reader back to its start
EnterRewound(c, rd, ar, ads) ==
    [reader |-> rd, areader |-> [ar EXCEPT !.cursor = ar.start],
     adaptors |-> ads,
     pc |-> IF IsLeaf(c) THEN "leaf" ELSE "node",
     double_hyphen |-> FALSE, result |-> PyNone, signal |-> NoSignal,
     calls |-> <<>>]

\* Parser.parse on entry: the loop to run, with double_hyphen = False
Enter(c, rd, ar, ads) ==
    [reader |-> rd, areader |-> ar, adaptors |-> ads,
     pc |-> IF IsLeaf(c) THEN "leaf" ELSE "node",
     double_hyphen |-> FALSE, result |-> PyNone, signal |-> NoSignal,
     calls |-> <<>>]

\* one step of Parser.parse from st
Step(st, c) ==
    CASE st.pc = "leaf" -> LeafScan(st, c)
      [] st.pc = "leaf_args" -> LeafArgs(st, c)
      [] st.pc = "node" -> NodeScan(st, c)
      [] st.pc = "node_command" -> NodeCommand(st, c)

RECURSIVE Run(_, _)
\* Parser.parse run to its return or to the exception that ends it
Run(st, c) ==
    IF st.pc \in {"returned", "raised"} THEN st ELSE Run(Step(st, c), c)

\* Parser(command).parse(Reader(argv)) with the adaptors and the argument
\* reader as they stand
Parse(c, argv, ar, ads) == Run(Enter(c, ReaderOf(argv), ar, ads), c)

----------------------------------------------------------------------------
(* The Reader driven directly by a caller. *)

ReaderTokens == {<<"a">>, <<"-", "b">>, <<"-", "-">>}
StartArgs == {NoneArg} \cup {Some(i) : i \in -1..MaxLen}
EndArgs == {NoneArg} \cup {Some(i) : i \in -1..(MaxLen + 1)}

NoRet == [op |-> "none", at |-> 0, exc |-> "none", val |-> <<>>]
NoSeen == [p \in {} |-> <<>>]

IdleParser ==
    /\ command = "none"
    /\ areader = NoReader
    /\ adaptors = <<>>
    /\ pc = "none"
    /\ double_hyphen = FALSE
    /\ result = PyNone
    /\ signal = NoSignal
    /\ parses = 0
    /\ entry = [adaptors |-> <<>>, areader |-> NoReader]
    /\ calls = <<>>
    /\ earlier = <<>>

\* no Reader is driven by the caller
IdleReader ==
    /\ reader = NoReader
    /\ ctor = "ok"
    /\ ret = NoRet
    /\ seen = NoSeen

\* no Command is under construction
IdleSetup ==
    /\ built = Command(<<>>)
    /\ made = NoParser

\* no Adaptor is invoked directly
IdleDriver ==
    /\ driver = PyNone
    /\ applied = <<>>
    /\ twin = PyNone
    /\ twin_raised = NoSignal

\* no validator is called directly
IdleValidator ==
    /\ cv = PyNone
    /\ arg = <<>>
    /\ out = PyNone

InitReader ==
    /\ \E toks \in SeqsUpTo(ReaderTokens, MaxLen), s \in StartArgs, e \in EndArgs :
          LET n == ReaderNew(toks, s, e)
          IN  /\ reader = n.r
              /\ ctor = IF n.exc = "none" THEN "ok" ELSE n.exc
              /\ ret = [op |-> "init", at |-> 0, exc |-> n.exc,
                        val |-> <<toks, s, e>>]
    /\ seen = NoSeen
    /\ IdleParser
    /\ IdleSetup
    /\ IdleDriver
    /\ IdleValidator

\* the caller calls reader.is_eof()
IsEof ==
    /\ ctor = "ok"
    /\ ret' = [op |-> "is_eof", at |-> reader.cursor, exc |-> "none",
               val |-> ReaderIsEof(reader)]
    /\ UNCHANGED <<reader, ctor, seen>>
    /\ UNCHANGED <<parserVars, setupVars, driverVars, validatorVars>>

\* the caller calls reader.get()
Get ==
    /\ ctor = "ok"
    /\ LET n == ReaderGet(reader)
       IN  /\ reader' = n.r
           /\ ret' = [op |-> "get", at |-> reader.cursor, exc |-> n.exc,
                      val |-> n.token]
           /\ seen' = IF n.exc = "none" /\ reader.cursor \notin DOMAIN seen
                        THEN [p \in DOMAIN seen \cup {reader.cursor} |->
                                 IF p = reader.cursor THEN n.token ELSE seen[p]]
                        ELSE seen
    /\ UNCHANGED ctor
    /\ UNCHANGED <<parserVars, setupVars, driverVars, validatorVars>>

\* the caller calls reader.put()
Put ==
    /\ ctor = "ok"
    /\ LET n == ReaderPut(reader)
       IN  /\ reader' = n.r
           /\ ret' = [op |-> "put", at |-> reader.cursor, exc |-> n.exc,
                      val |-> <<>>]
    /\ UNCHANGED <<ctor, seen>>
    /\ UNCHANGED <<parserVars, setupVars, driverVars, validatorVars>>

NextReader == IsEof \/ Get \/ Put

SpecReader == InitReader /\ [][NextReader]_vars

----------------------------------------------------------------------------
(* A Parser built over one command, and parse called on argument vectors.  *)

Long(name) == DoubleHyphen \o name
LongEq(name, value) == DoubleHyphen \o name \o <<"=">> \o value
Short(chars) == Hyphen \o chars

\* the tokens an argument vector is drawn from, per command
Vocabulary(id) ==
    CASE id = "cmd" ->
            {Short(<<"c">>), Short(<<"c", "c">>), Long(NameCount),
             Long(NameName), Short(<<"n">>), <<"x">>,
             LongEq(NameName, <<"x">>), Short(<<"c", "n">>),
             Long(<<"n", "o", "p", "e">>),
             LongEq(<<"n", "o", "p", "e">>, <<"x">>),
             LongEq(NameCount, <<"x">>), LongEq(NameName, <<>>),
             LongEq(NameName, <<"=">>), Short(<<"c", "n", "c">>)}
      [] id = "app" ->
            {NameBuild, NameTest, <<"d", "e", "p", "l", "o", "y">>,
             Short(<<"v">>), Short(<<"h">>), Long(NameHelp),
             Short(<<"v", "h">>), Short(<<"h", "v">>), Short(<<"V">>),
             DoubleHyphen, Hyphen, NameDash}
      [] id = "build" ->
            {<<"v">>, Short(<<"w", "e", "i", "r", "d">>), DoubleHyphen,
             Short(<<"a">>), Short(<<"b">>), Short(<<"a", "b">>),
             Long(NameFoo), LongEq(NameFoo, <<"v">>), Long(NameKeyEqVal),
             Short(<<"f", "v">>), Short(<<"a", "h", "b">>)}
      [] id = "test" ->
            {<<"p">>, <<"7">>, DoubleHyphen, Hyphen, Short(<<"j">>),
             Short(<<"j", "7">>), Short(<<"j", "q">>), Long(NameJobs)}
      [] id = "switch" -> {<<"x">>, DoubleHyphen}
      [] id = "copy" -> {<<"a">>, <<"b">>, DoubleHyphen}
      [] id = "run" ->
            {Short(<<"C">>), Long(<<"d", "i", "r">>), NameBuild, DoubleHyphen,
             <<"x">>}

\* Parser(command) has been constructed; parse has not been called
InitParser ==
    /\ \E id \in CommandIds :
          /\ ParserNew(Commands(id)).exc = "none"
          /\ command = id
          /\ areader = ParserNew(Commands(id)).areader
          /\ adaptors = AdaptorsOf(id)
    /\ pc = "ready"
    /\ double_hyphen = FALSE
    /\ result = PyNone
    /\ signal = NoSignal
    /\ parses = 0
    /\ entry = [adaptors |-> <<>>, areader |-> NoReader]
    /\ calls = <<>>
    /\ earlier = <<>>
    /\ IdleReader
    /\ IdleSetup
    /\ IdleDriver
    /\ IdleValidator

\* the parse state held in the variables
Cur ==
    [reader |-> reader, areader |-> areader, adaptors |-> adaptors, pc |-> pc,
     double_hyphen |-> double_hyphen, result |-> result, signal |-> signal,
     calls |-> calls]

Becomes(st) ==
    /\ reader' = st.reader
    /\ areader' = st.areader
    /\ adaptors' = st.adaptors
    /\ pc' = st.pc
    /\ double_hyphen' = st.double_hyphen
    /\ result' = st.result
    /\ signal' = st.signal
    /\ calls' = st.calls

\* the caller calls parser.parse(Reader(argv))
ParseCall ==
    /\ pc = "ready"
    /\ \E argv \in SeqsUpTo(Vocabulary(command), MaxArgv) :
          Becomes(Enter(Commands(command), ReaderOf(argv), areader, adaptors))
    /\ entry' = [adaptors |-> adaptors, areader |-> areader]
    /\ parses' = parses + 1
    /\ UNCHANGED <<command, earlier, ctor, ret, seen>>
    /\ UNCHANGED <<setupVars, driverVars, validatorVars>>

\* one iteration of the first loop of _parse_leaf
LeafScanStep ==
    /\ pc = "leaf"
    /\ Becomes(LeafScan(Cur, Commands(command)))
    /\ UNCHANGED <<command, parses, entry, earlier, ctor, ret, seen>>
    /\ UNCHANGED <<setupVars, driverVars, validatorVars>>

\* one iteration of the second loop of _parse_leaf
LeafArgsStep ==
    /\ pc = "leaf_args"
    /\ Becomes(LeafArgs(Cur, Commands(command)))
    /\ UNCHANGED <<command, parses, entry, earlier, ctor, ret, seen>>
    /\ UNCHANGED <<setupVars, driverVars, validatorVars>>

\* one iteration of the first loop of _parse_node
NodeScanStep ==
    /\ pc = "node"
    /\ Becomes(NodeScan(Cur, Commands(command)))
    /\ UNCHANGED <<command, parses, entry, earlier, ctor, ret, seen>>
    /\ UNCHANGED <<setupVars, driverVars, validatorVars>>

\* the second loop of _parse_node
NodeCommandStep ==
    /\ pc = "node_command"
    /\ Becomes(NodeCommand(Cur, Commands(command)))
    /\ UNCHANGED <<command, parses, entry, earlier, ctor, ret, seen>>
    /\ UNCHANGED <<setupVars, driverVars, validatorVars>>

NextParser ==
    \/ ParseCall
    \/ LeafScanStep
    \/ LeafArgsStep
    \/ NodeScanStep
    \/ NodeCommandStep

SpecParser == InitParser /\ [][NextParser]_vars

----------------------------------------------------------------------------
(* parse called again and again on the same Parser, each time with a fresh *)
(* Reader.                                                                 *)

MaxParses == 2
MaxReArgv == 2

\* the tokens the argument vectors of repeated parses are drawn from
ReVocabulary(id) ==
    CASE id = "cmd" ->
            {Short(<<"c">>), LongEq(NameName, <<"x">>), Short(<<"n", "y">>)}
      [] id = "app" -> {Short(<<"v">>), DoubleHyphen, NameBuild}
      [] id = "build" -> {Short(<<"a">>), <<"v">>}
      [] id = "test" -> {<<"p">>, Short(<<"j", "q">>), DoubleHyphen}
      [] id = "switch" -> {<<"x">>}
      [] id = "copy" -> {<<"a">>}
      [] id = "run" -> {Short(<<"C">>), NameBuild}

\* the caller calls parser.parse(Reader(argv)), for the first time or after
\* an earlier parse has returned or raised
ParseAgain ==
    /\ pc \in {"ready", "returned", "raised"}
    /\ parses < MaxParses
    /\ \E argv \in SeqsUpTo(ReVocabulary(command), MaxReArgv) :
          Becomes(Enter(Commands(command), ReaderOf(argv), areader, adaptors))
    /\ entry' = [adaptors |-> adaptors, areader |-> areader]
    /\ parses' = parses + 1
    /\ earlier' = earlier \o calls
    /\ UNCHANGED <<command, ctor, ret, seen>>
    /\ UNCHANGED <<setupVars, driverVars, validatorVars>>

NextReparse ==
    \/ ParseAgain
    \/ LeafScanStep
    \/ LeafArgsStep
    \/ NodeScanStep
    \/ NodeCommandStep

SpecReparse == InitParser /\ [][NextReparse]_vars

----------------------------------------------------------------------------
(* A caller descending the command tree: parse a node, then parse the       *)
(* subcommand it returned with the same Reader, until a result names none.  *)

MaxDescendArgv == 4

\* the tokens the argument vector of a descent is drawn from
DescendVocabulary ==
    {NameBuild, NameTest, NameDash, Short(<<"v">>), DoubleHyphen, <<"v">>,
     Short(<<"a">>), Short(<<"j", "7">>)}

\* the caller calls parser.parse(reader) with the Reader of the whole input
ParseShared ==
    /\ pc = "ready"
    /\ \E argv \in SeqsUpTo(DescendVocabulary, MaxDescendArgv) :
          Becomes(Enter(Commands(command), ReaderOf(argv), areader, adaptors))
    /\ entry' = [adaptors |-> adaptors, areader |-> areader]
    /\ parses' = parses + 1
    /\ UNCHANGED <<command, earlier, ctor, ret, seen>>
    /\ UNCHANGED <<setupVars, driverVars, validatorVars>>

\* the caller calls Parser(result.command).parse(reader) with the same Reader;
\* adaptors then holds the adaptors of the subcommand
Descend ==
    /\ pc = "returned"
    /\ result # PyNone
    /\ LET made1 == ParserNew(Commands(result.v))
       IN  /\ made1.exc = "none"
           /\ command' = result.v
           /\ Becomes(Enter(Commands(result.v), reader, made1.areader,
                            AdaptorsOf(result.v)))
           /\ entry' = [adaptors |-> AdaptorsOf(result.v),
                        areader |-> made1.areader]
    /\ parses' = parses + 1
    /\ earlier' = earlier \o calls
    /\ UNCHANGED <<ctor, ret, seen>>
    /\ UNCHANGED <<setupVars, driverVars, validatorVars>>

NextDescend ==
    \/ ParseShared
    \/ Descend
    \/ LeafScanStep
    \/ LeafArgsStep
    \/ NodeScanStep
    \/ NodeCommandStep

SpecDescend == InitParser /\ [][NextDescend]_vars

----------------------------------------------------------------------------
(* A Command built by the builder calls, and a Parser constructed over it. *)

MaxBuild == 4

\* the groups and members a command holds
Declared(c) ==
    Len(c.command_groups) + Len(Flatten(c.command_groups))
    + Len(c.argument_groups) + Len(Flatten(c.argument_groups))
    + Len(c.option_groups) + Len(Flatten(c.option_groups))

\* the spellings an added option is declared with; the last is rejected by
\* Option._parse_decls
SetupDecls ==
    {<<ShortDecl("a")>>, <<ShortDecl("b")>>, <<LongDecl(NameAll)>>,
     <<ShortDecl("a"), LongDecl(NameAll)>>,
     <<ShortDecl("a"), ShortDecl("a")>>,
     <<LongDecl(NameAll), LongDecl(NameAll)>>,
     <<Short(<<"a", "b">>)>>}

InitSetup ==
    /\ built = Command(<<"x">>)
    /\ made = NoParser
    /\ IdleReader
    /\ IdleParser
    /\ IdleDriver
    /\ IdleValidator

\* command.add_command(name)
AddCommandCall ==
    /\ made = NoParser
    /\ Declared(built) < MaxBuild
    /\ \E sub \in {"build", "test"} : built' = AddCommand(built, sub)
    /\ UNCHANGED <<made, readerVars, parserVars, driverVars, validatorVars>>

\* command.add_command_group(id, title)
AddCommandGroupCall ==
    /\ made = NoParser
    /\ Declared(built) < MaxBuild
    /\ built' = AddCommandGroup(built)
    /\ UNCHANGED <<made, readerVars, parserVars, driverVars, validatorVars>>

\* command.add_argument(id, decl, adaptor=...): nothing is added when
\* Argument.__init__ raises
AddArgumentCall ==
    /\ made = NoParser
    /\ Declared(built) < MaxBuild
    /\ \E decl \in {<<"t">>, <<>>}, multiple \in BOOLEAN :
          LET argument == Argument(Declared(built), decl, "target", multiple,
                                   TRUE)
          IN  built' = IF argument.exc = "none"
                         THEN AddArgument(built, argument) ELSE built
    /\ UNCHANGED <<made, readerVars, parserVars, driverVars, validatorVars>>

\* command.add_argument_group(id, title)
AddArgumentGroupCall ==
    /\ made = NoParser
    /\ Declared(built) < MaxBuild
    /\ built' = AddArgumentGroup(built)
    /\ UNCHANGED <<made, readerVars, parserVars, driverVars, validatorVars>>

\* command.add_option(id, *decls, adaptor=...): nothing is added when
\* Option.__init__ raises
AddOptionCall ==
    /\ made = NoParser
    /\ Declared(built) < MaxBuild
    /\ \E decls \in SetupDecls :
          LET option == Option(Declared(built), decls, "flag", TRUE, FALSE)
          IN  built' = IF option.exc = "none"
                         THEN AddOption(built, option) ELSE built
    /\ UNCHANGED <<made, readerVars, parserVars, driverVars, validatorVars>>

\* command.add_option_group(id, title)
AddOptionGroupCall ==
    /\ made = NoParser
    /\ Declared(built) < MaxBuild
    /\ built' = AddOptionGroup(built)
    /\ UNCHANGED <<made, readerVars, parserVars, driverVars, validatorVars>>

\* Parser(command)
NewParser ==
    /\ made = NoParser
    /\ made' = ParserNew(built)
    /\ UNCHANGED <<built, readerVars, parserVars, driverVars, validatorVars>>

NextSetup ==
    \/ AddCommandCall
    \/ AddCommandGroupCall
    \/ AddArgumentCall
    \/ AddArgumentGroupCall
    \/ AddOptionCall
    \/ AddOptionGroupCall
    \/ NewParser

SpecSetup == InitSetup /\ [][NextSetup]_vars

----------------------------------------------------------------------------
(* An Adaptor invoked directly: adaptor(values, source=source).             *)

MaxCalls == 3

\* the adaptors constructed: every variant, value adaptors with and without
\* a default value
Drivers ==
    {ScalarAdaptor("Str"), ScalarAdaptor("Int"),
     AdaptorNew("Scalar", 1, "Str", PyStr(<<"d">>)),
     ListAdaptor("Str"), ListAdaptor("Int"),
     AdaptorNew("List", 1, "Int", PyList(<<PyInt(5)>>)),
     OnFlagAdaptor, OffFlagAdaptor, CountFlagAdaptor, HelpAdaptor,
     VersionAdaptor}

\* the tokens passed as values
DriverValues == {<<"7">>, <<"q">>}

ValueSources == {DEFAULT, CLI, ENV}

\* the names given to the Source of a call
SourceNames == {"", "--name"}

\* the Driver of drivers.py constructed with the arguments the Adaptor was
\* constructed with
TwinOf(a) ==
    CASE a.kind = "Scalar" ->
            DriverNew("Scalar", 1, a.validator, a.value_parsed)
      [] a.kind = "List" ->
            DriverNew("List", 1, a.validator, a.value_parsed)
      [] a.kind = "OnFlag" -> DriverNew("OnFlag", 0, "none", PyBool(FALSE))
      [] a.kind = "OffFlag" -> DriverNew("OffFlag", 0, "none", PyBool(TRUE))
      [] a.kind = "CountFlag" -> DriverNew("CountFlag", 0, "none", PyInt(0))
      [] a.kind = "Help" -> DriverNew("Help", 0, "none", PyNone)
      [] a.kind = "Version" -> DriverNew("Version", 0, "none", PyNone)

InitDriver ==
    /\ driver \in Drivers
    /\ applied = <<>>
    /\ twin = TwinOf(driver)
    /\ twin_raised = NoSignal
    /\ IdleReader
    /\ IdleParser
    /\ IdleSetup
    /\ IdleValidator

\* the caller calls driver(values, source=source), and calls twin with the
\* same values and a Source of the same type
Apply ==
    /\ Len(applied) < MaxCalls
    /\ \E values \in SeqsUpTo(DriverValues, 1), source \in ValueSources,
          name \in SourceNames :
          LET r == AdaptorCall(driver, values, source)
              t == DriverCall(twin, values, Source(name, source))
          IN  /\ driver' = r.a
              /\ applied' = Append(applied, [values |-> values,
                                             source |-> source, exc |-> r.exc])
              /\ twin' = t.a
              /\ twin_raised' = t.exc
    /\ UNCHANGED <<readerVars, parserVars, setupVars, validatorVars>>

NextDriver == Apply

SpecDriver == InitDriver /\ [][NextDriver]_vars

----------------------------------------------------------------------------
(* A StrChoiceValidator constructed and called.                            *)

MaxChoices == 2

NameAndroid == <<"A", "n", "d", "r", "o", "i", "d">>
NameIOS == <<"i", "O", "S">>

\* the strings the choices are drawn from
ChoiceStrings == {NameAndroid, NameIOS, <<"i", "o", "s">>, <<"I", "O", "S">>}

\* the strings passed to the validator
ValueStrings ==
    {<<"i", "o", "s">>, NameIOS, <<"I", "O", "s">>,
     <<"a", "n", "d", "r", "o", "i", "d">>, NameAndroid, <<"i", "o">>}

\* a call that has not been made
NoCall == [exc |-> "uncalled", v |-> PyNone]

InitValidator ==
    /\ \E choices \in SeqsUpTo(ChoiceStrings, MaxChoices),
          ignore_case \in BOOLEAN, norm_case \in BOOLEAN :
          cv = StrChoiceValidator(choices, ignore_case, norm_case)
    /\ arg = <<>>
    /\ out = NoCall
    /\ IdleReader
    /\ IdleParser
    /\ IdleSetup
    /\ IdleDriver

\* the caller calls cv(value)
CallValidator ==
    /\ cv.exc = "none"
    /\ \E value \in ValueStrings :
          /\ arg' = value
          /\ out' = StrChoiceCall(cv, value)
    /\ UNCHANGED <<cv, readerVars, parserVars, setupVars, driverVars>>

NextValidator == CallValidator

SpecValidator == InitValidator /\ [][NextValidator]_vars

----------------------------------------------------------------------------
(* Claims about the Reader. *)

\* C1: get() raises IndexError whenever is_eof() is true and put() raises
\* IndexError whenever the cursor equals the start bound; in every other
\* position both succeed (get returns the token at the cursor and advances by
\* one, put steps back by one), and no other error is raised.
C1_GetPutRange ==
    /\ ret.op = "get" =>
          /\ ret.exc \in {"none", "IndexError"}
          /\ (ret.exc = "IndexError") = (ret.at = reader.end)
          /\ ret.exc = "none" =>
                /\ reader.cursor = ret.at + 1
                /\ ret.val = reader.tokens[ret.at + 1]
    /\ ret.op = "put" =>
          /\ ret.exc \in {"none", "IndexError"}
          /\ (ret.exc = "IndexError") = (ret.at = reader.start)
          /\ ret.exc = "none" => reader.cursor = ret.at - 1

\* a get has failed at the end bound of a reader whose end bound lies inside
\* the token sequence, after an earlier get succeeded
C1_Witness ==
    /\ ret.op = "get"
    /\ ret.exc = "IndexError"
    /\ reader.cursor > reader.start
    /\ reader.end < Len(reader.tokens)

\* C19: no Reader call, successful or failing, changes the token sequence
\* or the start and end bounds, and is_eof leaves the cursor where it was.
C19_OnlyCursor ==
    [][/\ reader'.tokens = reader.tokens
       /\ reader'.start = reader.start
       /\ reader'.end = reader.end
       /\ ret'.op = "is_eof" => reader'.cursor = reader.cursor
       /\ ret'.exc = "IndexError" => reader' = reader]_vars

\* is_eof has answered False at the start bound of a reader whose tokens
\* have all been read and put back
C19_Witness ==
    /\ ret.op = "is_eof"
    /\ ret.val = FALSE
    /\ reader.cursor = reader.start
    /\ DOMAIN seen = reader.start..(reader.end - 1)
    /\ reader.end - reader.start >= 2

\* C2: a get from a cursor position the reader held before returns the token
\* the first get from that position returned.
C2_Replay ==
    (ret.op = "get" /\ ret.exc = "none") =>
        /\ ret.at \in DOMAIN seen
        /\ ret.val = seen[ret.at]

\* a get has succeeded from a position the cursor was brought back to by put:
\* a position further on was read before
C2_Witness ==
    /\ ret.op = "get"
    /\ ret.exc = "none"
    /\ \E p \in DOMAIN seen : p > ret.at /\ seen[p] # ret.val

----------------------------------------------------------------------------
(* Claims about the Parser. *)

Finished == pc \in {"returned", "raised"}
Cmd == Commands(command)
Options == Flatten(Cmd.option_groups)
Arguments == ArgumentBuild(Cmd)
Tokens == reader.tokens

\* the parse of argv from the state this parse was entered in
EntryParse(argv) == Parse(Cmd, argv, entry.areader, entry.adaptors)

\* the adaptors invoked and the values passed, in order
Invocations(cs) == [i \in 1..Len(cs) |-> <<cs[i].adaptor, cs[i].values>>]

\* the long spellings declared by options that take one value
OneValueLongs ==
    {ol \in Range(Options) \X Range(AllLong(Options)) :
        /\ ol[2] \in Range(ol[1].long_options)
        /\ adaptors[ol[1].adaptor].num_values = 1}

\* ["--l", v] has been parsed: ["--l=v"] gives the same state, and the value
\* is bound
RoundTrip(o, l, v) ==
    LET other == EntryParse(<<LongEq(l, v)>>)
        a == adaptors[o.adaptor]
    IN  /\ pc = "returned"
        /\ other.pc = pc
        /\ other.signal = signal
        /\ other.result = result
        /\ other.adaptors = adaptors
        /\ other.areader = areader
        /\ Invocations(other.calls) = Invocations(calls)
        /\ ReaderIsEof(reader)
        /\ ReaderIsEof(other.reader)
        /\ a.kind = "Scalar" => a.value_parsed = Validate(a.validator, v).v
        /\ a.value_source = CLI
        /\ a.count = entry.adaptors[o.adaptor].count + 1

\* C3 as stated: for any long spelling --l of a one-value option and any
\* value v, ["--l", v] and ["--l=v"] give the same bound state: value v,
\* provenance command-line, count + 1, the reader at end-of-input.
C3_AnySpelling ==
    \A ol \in OneValueLongs :
        (Finished /\ Len(Tokens) = 2 /\ Tokens[1] = Long(ol[2]))
            => RoundTrip(ol[1], ol[2], Tokens[2])

\* C3 amended: the same, for a spelling that contains no "=" and a value the
\* option's validator accepts.
C3_RoundTrip ==
    \A ol \in OneValueLongs :
        (/\ Finished /\ Len(Tokens) = 2 /\ Tokens[1] = Long(ol[2])
         /\ ~Contains(ol[2], "=")
         /\ Validate(adaptors[ol[1].adaptor].validator, Tokens[2]).exc = "none")
            => RoundTrip(ol[1], ol[2], Tokens[2])

\* ["--name", "--name=x"] has been parsed: the value itself holds an "="
C3_Witness ==
    /\ command = "cmd"
    /\ Tokens = <<Long(NameName), LongEq(NameName, <<"x">>)>>
    /\ pc = "returned"
    /\ adaptors["name"].value_parsed = PyStr(LongEq(NameName, <<"x">>))

\* a cluster of two or more zero-value short options
IsFlagCluster(t) ==
    /\ Len(t) >= 3
    /\ t[1] = "-"
    /\ \A i \in 2..Len(t) :
          /\ t[i] \in DOMAIN OptionBuild(Cmd).smap
          /\ adaptors[OptionBuild(Cmd).smap[t[i]].adaptor].num_values = 0

\* "-ab" as "-a", "-b"
Separate(t) == [i \in 1..(Len(t) - 1) |-> <<"-", t[i + 1]>>]

\* C4: a cluster of zero-value short options parsed as one token leaves the
\* adaptors as the same options parsed as separate tokens do, with the same
\* invocations in the same order and the same outcome.
C4_Cluster ==
    (Finished /\ Len(Tokens) = 1 /\ IsFlagCluster(Tokens[1])) =>
        LET other == EntryParse(Separate(Tokens[1]))
        IN  /\ other.adaptors = adaptors
            /\ Invocations(other.calls) = Invocations(calls)
            /\ other.pc = pc
            /\ other.signal = signal
            /\ other.result = result
            /\ other.areader = areader

\* ["-ab"] has been parsed by build: both flags were invoked
C4_Witness ==
    /\ command = "build"
    /\ Tokens = <<Short(<<"a", "b">>)>>
    /\ pc = "returned"
    /\ adaptors["all"].value_parsed = PyBool(TRUE)
    /\ adaptors["brief"].value_parsed = PyBool(FALSE)
    /\ Invocations(calls) = <<<<"all", <<>>>>, <<"brief", <<>>>>>>

\* C5: when the parse of a leaf command returns, every Argument declared
\* required has an adaptor that is present.
C5_RequiredPresent ==
    (pc = "returned" /\ IsLeaf(Cmd)) =>
        \A i \in 1..Len(Arguments) :
            Arguments[i].required => Present(adaptors[Arguments[i].adaptor])

\* a long-option token whose name (the text before any "=") is not declared
UnknownLong(t) ==
    /\ StartsWith(t, DoubleHyphen)
    /\ t # DoubleHyphen
    /\ LET text == RemovePrefix(t, DoubleHyphen)
           name == IF Contains(text, "=") THEN SplitOnce(text, "=").name
                   ELSE text
       IN  name \notin Range(AllLong(Options))

\* C6: an input whose first token is an undeclared long option, with or
\* without an =value suffix, fails with "Unknown option" on that token and
\* leaves every adaptor as it was; no adaptor is invoked.
C6_UnknownLong ==
    (Finished /\ Len(Tokens) >= 1 /\ UnknownLong(Tokens[1])) =>
        /\ pc = "raised"
        /\ signal = Signal("CliParsingError", "Unknown option")
        /\ adaptors = entry.adaptors
        /\ areader = entry.areader
        /\ calls = <<>>
        /\ reader.cursor = 1

\* ["--nope=x"] has been parsed
C6_Witness ==
    /\ Tokens = <<LongEq(<<"n", "o", "p", "e">>, <<"x">>)>>
    /\ Finished

\* the adaptors of the options of the command
OptionAdaptors == {Options[i].adaptor : i \in 1..Len(Options)}

\* C7: at a leaf, once "--" has been read, each further token is passed
\* verbatim to the argument consumer: it is bound by one invocation of the
\* current argument's adaptor with that token as the value, or fails with
\* "Too many arguments"; no option adaptor is invoked or changed. For build,
\* ["--", "-weird"] binds target to "-weird".
C7_AfterSentinel ==
    /\ [](/\ command = "build"
          /\ Tokens = <<DoubleHyphen, Short(<<"w", "e", "i", "r", "d">>)>>
          /\ Finished
          => /\ pc = "returned"
             /\ adaptors["target"].value_parsed =
                    PyStr(Short(<<"w", "e", "i", "r", "d">>))
             /\ Invocations(calls) =
                    <<<<"target", <<Short(<<"w", "e", "i", "r", "d">>)>>>>>>)
    /\ [][(IsLeaf(Cmd) /\ double_hyphen /\ ~Finished /\ ~ReaderIsEof(reader)) =>
            LET token == Tokens[reader.cursor + 1]
            IN  /\ reader'.cursor = reader.cursor + 1
                /\ \A id \in OptionAdaptors : adaptors'[id] = adaptors[id]
                /\ IF ReaderIsEof(areader)
                     THEN /\ signal' = Signal("CliParsingError",
                                              "Too many arguments")
                          /\ calls' = calls
                          /\ adaptors' = adaptors
                     ELSE calls' = Append(calls,
                              [adaptor |-> areader.tokens[areader.cursor + 1].adaptor,
                               values |-> <<token>>,
                               at |-> reader.cursor + 1])]_vars

\* test has parsed ["--", "-j7", "--"]: both tokens after the sentinel were
\* bound as positional values
C7_Witness ==
    /\ command = "test"
    /\ Tokens = <<DoubleHyphen, Short(<<"j", "7">>), DoubleHyphen>>
    /\ pc = "returned"
    /\ adaptors["first"].value_parsed = PyStr(Short(<<"j", "7">>))
    /\ adaptors["files"].value_parsed = PyList(<<PyStr(DoubleHyphen)>>)
    /\ adaptors["jobs"].count = 0

\* the names of the subcommands of the command
Subcommands == Flatten(Cmd.command_groups)

\* C8: at an interior command a returned ParserResult carrying a subcommand
\* names the token just before the cursor, every earlier token was taken by
\* option scanning (it begins with "-", or it is the value of the option
\* named by the token before it), and nothing was invoked for a later token; an input that starts with a
\* bare token naming a subcommand returns that subcommand with the cursor
\* after it, so ["build"] returns build with the reader at end-of-input.
C8_FirstSubcommand ==
    ~IsLeaf(Cmd) =>
        /\ (pc = "returned" /\ result # PyNone) =>
              /\ reader.cursor >= 1
              /\ result.v \in Range(Subcommands)
              /\ Commands(result.v).name = Tokens[reader.cursor]
              /\ \A i \in 1..(reader.cursor - 1) :
                    \/ StartsWith(Tokens[i], Hyphen)
                    \/ \E k \in 1..Len(calls) :
                          /\ calls[k].at = i - 1
                          /\ calls[k].values = <<Tokens[i]>>
              /\ \A k \in 1..Len(calls) : calls[k].at < reader.cursor
        /\ \A sub \in Range(Subcommands) :
              (/\ Finished
               /\ Len(Tokens) >= 1
               /\ Tokens[1] = Commands(sub).name
               /\ ~StartsWith(Tokens[1], Hyphen)) =>
                  /\ pc = "returned"
                  /\ result = ParserResult(sub)
                  /\ reader.cursor = 1
                  /\ calls = <<>>
                  /\ Len(Tokens) = 1 => ReaderIsEof(reader)

\* app has parsed ["-v", "build", "test"]: it stopped after build
C8_Witness ==
    /\ command = "app"
    /\ Tokens = <<Short(<<"v">>), NameBuild, NameTest>>
    /\ pc = "returned"
    /\ result = ParserResult("build")
    /\ reader.cursor = 2

RECURSIVE LeadingCount(_)
\* the number of "c" characters a cluster starts with
LeadingCount(chars) ==
    IF chars = <<>> \/ Head(chars) # "c" THEN 0
    ELSE 1 + LeadingCount(Tail(chars))

RECURSIVE Supplied(_, _)
\* for an input cmd accepts: the occurrences of --count / -c added to
\* acc.count, and the last value given to --name / -n
Supplied(toks, acc) ==
    IF toks = <<>> THEN acc
    ELSE LET t == Head(toks)
             k == LeadingCount(Tail(t))
             counted == [acc EXCEPT !.count = @ + k]
         IN  IF t = Long(NameCount)
               THEN Supplied(Tail(toks), [acc EXCEPT !.count = @ + 1])
             ELSE IF t = Long(NameName)
               THEN Supplied(Tail(Tail(toks)), [acc EXCEPT !.name = PyStr(toks[2])])
             ELSE IF StartsWith(t, Long(NameName) \o <<"=">>)
               THEN Supplied(Tail(toks),
                             [acc EXCEPT !.name =
                                 PyStr(SliceFrom(t, Len(NameName) + 3))])
             ELSE IF k = Len(t) - 1
               THEN Supplied(Tail(toks), counted)
             ELSE IF k = Len(t) - 2
               THEN Supplied(Tail(Tail(toks)),
                             [counted EXCEPT !.name = PyStr(toks[2])])
             ELSE Supplied(Tail(toks),
                           [counted EXCEPT !.name = PyStr(SliceFrom(t, k + 2))])

\* C9: after a successful parse by cmd the count adaptor's value is the
\* number of occurrences of --count and -c in the input, clustered or not,
\* and the name adaptor holds the last value supplied; ["-cc", "--name", "x"]
\* gives count 2 and name "x", both present.
C9_CountAndName ==
    (command = "cmd" /\ pc = "returned") =>
        LET had == entry.adaptors["count"]
            s == Supplied(Tokens,
                          [count |-> 0,
                           name |-> entry.adaptors["name"].value_parsed])
        IN  /\ adaptors["count"].value_parsed =
                   PyInt(s.count + IF had.count = 0 THEN 0 ELSE had.value_parsed.v)
            /\ adaptors["count"].count = had.count + s.count
            /\ adaptors["name"].value_parsed = s.name
            /\ Tokens = <<Short(<<"c", "c">>), Long(NameName), <<"x">>>> =>
                  /\ adaptors["count"].value_parsed = PyInt(2)
                  /\ adaptors["name"].value_parsed = PyStr(<<"x">>)
                  /\ Present(adaptors["count"])
                  /\ Present(adaptors["name"])

\* cmd has parsed ["-cc", "--name", "x"]
C9_Witness ==
    /\ command = "cmd"
    /\ Tokens = <<Short(<<"c", "c">>), Long(NameName), <<"x">>>>
    /\ pc = "returned"

IsMessage(id) == adaptors[id].kind \in {"Help", "Version"}

\* C10: the invocation of a help or version adaptor is the last invocation
\* of the parse: the parse has ended with CliMessage (status 0, not a
\* CliParsingError), the cursor is just after the token that triggered it,
\* and every adaptor that was not invoked before it is as it was on entry.
C10_MessageAborts ==
    /\ \A i \in 1..Len(calls) :
          IsMessage(calls[i].adaptor) =>
              /\ i = Len(calls)
              /\ pc = "raised"
              /\ signal = CliMessage(IF adaptors[calls[i].adaptor].kind = "Help"
                                       THEN "help" ELSE "version")
              /\ signal.status = PyInt(0)
              /\ signal.type # "CliParsingError"
              /\ reader.cursor = calls[i].at
              /\ adaptors[calls[i].adaptor].count =
                     entry.adaptors[calls[i].adaptor].count + 1
    /\ signal.type = "CliMessage" =>
          /\ calls # <<>>
          /\ IsMessage(calls[Len(calls)].adaptor)
          /\ \A id \in DOMAIN adaptors :
                (\A i \in 1..Len(calls) : calls[i].adaptor # id)
                    => adaptors[id] = entry.adaptors[id]

\* build has parsed ["-ahb", "-b"]: -a was invoked, then -h ended the parse
\* before the b of the cluster and before the next token
C10_Witness ==
    /\ command = "build"
    /\ Tokens = <<Short(<<"a", "h", "b">>), Short(<<"b">>)>>
    /\ signal = CliMessage("help")
    /\ adaptors["all"].count = 1
    /\ adaptors["brief"].count = 0
    /\ reader.cursor = 1

\* the signal messages of the parser's own checks
GrammarErrors ==
    {"Unknown option", "Unknown command", "requires a value",
     "does not take a value", "Too many arguments"}

\* the last invocation passed one value to a value adaptor whose validator
\* does not accept it
Rejected ==
    /\ calls # <<>>
    /\ LET k == calls[Len(calls)]
       IN  /\ adaptors[k.adaptor].num_values = 1
           /\ Len(k.values) = 1
           /\ Validate(adaptors[k.adaptor].validator, k.values[1]).exc # "none"

\* C11: a parse ended by an unknown option, an unknown command, a missing
\* value, a value given to an option that takes none, too many positional
\* tokens or a value its validator rejects, has ended with CliParsingError.
C11_OneSignal ==
    (pc = "raised" /\ (signal.message \in GrammarErrors \/ Rejected)) =>
        signal.type = "CliParsingError"

\* C18: every invocation made during a parse passes as many values as the
\* adaptor's num_values, and no parse ends with a failed arity assertion or
\* with a setup error.
C18_ArityKept ==
    /\ \A i \in 1..Len(calls) :
          Len(calls[i].values) = adaptors[calls[i].adaptor].num_values
    /\ signal.type \notin {"AssertionError", "CliSetupError"}

----------------------------------------------------------------------------
(* Claims about the construction of a Command and of a Parser over it. *)

BuiltOptions == Flatten(built.option_groups)

\* the spellings option o declares, short or long
SpellingsOf(o, short) == IF short THEN o.short_options ELSE o.long_options

\* where spelling s is declared: the option's place in the command and the
\* spelling's place in the option
DeclarationsOf(s, short) ==
    {ij \in (1..Len(BuiltOptions)) \X (1..2) :
        /\ ij[2] <= Len(SpellingsOf(BuiltOptions[ij[1]], short))
        /\ SpellingsOf(BuiltOptions[ij[1]], short)[ij[2]] = s}

DeclaredSpellings(short) ==
    UNION {Range(SpellingsOf(BuiltOptions[i], short)) : i \in 1..Len(BuiltOptions)}

\* some spelling is declared more than once
Collides ==
    \E short \in BOOLEAN : \E s \in DeclaredSpellings(short) :
        Cardinality(DeclarationsOf(s, short)) > 1

\* C12: Parser construction over a command in which a spelling is declared
\* more than once fails; after a successful construction every declared
\* spelling has one declaration and the lookup table maps it to the option
\* that declares it, and to nothing else.
C12_NoCollision ==
    made # NoParser =>
        /\ Collides => made.exc = "ValueError"
        /\ made.exc = "none" =>
              \A short \in BOOLEAN :
                  LET map == IF short THEN OptionBuild(built).smap
                             ELSE OptionBuild(built).lmap
                  IN  /\ DOMAIN map = DeclaredSpellings(short)
                      /\ \A s \in DeclaredSpellings(short) :
                            /\ Cardinality(DeclarationsOf(s, short)) = 1
                            /\ \A ij \in DeclarationsOf(s, short) :
                                  map[s] = BuiltOptions[ij[1]]

\* construction has failed over a leaf whose two option groups declare the
\* same spelling
C12_Witness ==
    /\ made.exc = "ValueError"
    /\ built.command_groups = <<>>
    /\ Len(built.option_groups) = 2
    /\ \E s \in Range(AllShort(built.option_groups[1])) :
          s \in Range(AllShort(built.option_groups[2]))

\* C13: no Parser is constructed over a command that has both subcommands
\* and positional arguments: construction fails.
C13_NoMixedNode ==
    (/\ made # NoParser
     /\ Flatten(built.command_groups) # <<>>
     /\ Flatten(built.argument_groups) # <<>>) => made.exc = "ValueError"

\* construction has failed over a command with a subcommand, an argument
\* and no option
C13_Witness ==
    /\ made.exc = "ValueError"
    /\ Flatten(built.command_groups) # <<>>
    /\ Flatten(built.argument_groups) # <<>>
    /\ built.option_groups = <<>>

\* C14: a command is a leaf, and is parsed by the leaf loop, exactly when
\* it has no subcommands.
C14_LeafIffNoSubcommands ==
    /\ IsLeaf(built) <=> (Flatten(built.command_groups) = <<>>)
    /\ (Enter(built, NoReader, NoReader, <<>>).pc = "leaf")
          <=> (Flatten(built.command_groups) = <<>>)

----------------------------------------------------------------------------
(* Claims about an Adaptor invoked directly. *)

\* the calls that reached the bookkeeping: those that returned, and those of
\* a message adaptor, which raises after it
Kept == {i \in 1..Len(applied) : applied[i].exc.type \in {"none", "CliMessage"}}

\* the calls that returned
Succeeded == SelectSeq(applied, LAMBDA c : c.exc = NoSignal)

C16_ScalarAndList ==
    LET validated == [i \in 1..Len(Succeeded) |->
                         Validate(driver.validator, Succeeded[i].values[1]).v]
    IN  (driver.num_values = 1 /\ Succeeded # <<>>) =>
            /\ driver.kind = "Scalar" =>
                  driver.value_parsed = validated[Len(validated)]
            /\ driver.kind = "List" =>
                  /\ driver.value_parsed = PyList(validated)
                  /\ Len(driver.value_parsed.v) = driver.count

\* a list adaptor constructed with the default [5] was called with "7", with
\* "q" (rejected) and with "7" again
C16_Witness ==
    /\ driver.kind = "List"
    /\ Len(applied) = 3
    /\ applied[2].exc.type = "ValueError"
    /\ driver.value_parsed = PyList(<<PyInt(7), PyInt(7)>>)
    /\ driver.count = 2

----------------------------------------------------------------------------
(* Claims about repeated parses. *)

\* an invocation that reached the adaptor's bookkeeping: the number of
\* values is the one expected and the validator accepts the value
KeptCall(c) ==
    LET a == adaptors[c.adaptor]
    IN  /\ Len(c.values) = a.num_values
        /\ a.num_values = 1 => Validate(a.validator, c.values[1]).exc = "none"

\* the invocations of adaptor id in all parses so far that reached its
\* bookkeeping, in order
KeptOf(id) ==
    SelectSeq(earlier \o calls, LAMBDA c : c.adaptor = id /\ KeptCall(c))

\* C17: what the adaptors hold is accumulated over all parses made with the
\* Parser: count is the number of invocations of all parses, a count flag
\* holds that number, a list holds the values of all parses in order, and a
\* scalar holds the latest value of any parse.
C17_Persists ==
    \A id \in DOMAIN adaptors :
        LET a == adaptors[id]
            kept == KeptOf(id)
            validated == [i \in 1..Len(kept) |->
                             Validate(a.validator, kept[i].values[1]).v]
        IN  /\ a.count = Len(kept)
            /\ (a.kind = "CountFlag" /\ kept # <<>>) =>
                  a.value_parsed = PyInt(Len(kept))
            /\ (a.kind = "List" /\ kept # <<>>) =>
                  a.value_parsed = PyList(validated)
            /\ (a.kind = "Scalar" /\ kept # <<>>) =>
                  a.value_parsed = validated[Len(validated)]

\* cmd has parsed "-c" and "--name=x" in an earlier parse and "-c" in this
\* one: the count flag holds 2 and name still holds "x"
C17_Witness ==
    /\ command = "cmd"
    /\ parses = 2
    /\ pc = "returned"
    /\ Invocations(earlier) = <<<<"count", <<>>>>, <<"name", <<<<"x">>>>>>>>
    /\ Invocations(calls) = <<<<"count", <<>>>>>>
    /\ adaptors["count"].value_parsed = PyInt(2)
    /\ adaptors["count"].count = 2
    /\ adaptors["name"].value_parsed = PyStr(<<"x">>)

----------------------------------------------------------------------------
(* Claims about StrChoiceValidator. *)

\* two characters that are the same letter in either case, or the same
\* character
SameLetter(c, d) ==
    \/ c = d
    \/ \E i \in 1..Len(UpperLetters) :
          {c, d} = {UpperLetters[i], LowerLetters[i]}

\* s and t are equal ignoring case
EqualIgnoringCase(s, t) ==
    /\ Len(s) = Len(t)
    /\ \A i \in 1..Len(s) : SameLetter(s[i], t[i])

\* the places of the choices that equal the argument ignoring case
Matches == {i \in 1..Len(cv.choices) : EqualIgnoringCase(cv.choices[i], arg)}

\* C20: with ignore_case and norm_case a value that equals some choice
\* ignoring case gives the first such choice as spelled in choices ("ios"
\* with ["Android", "iOS"] gives "iOS"); with ignore_case alone it gives the
\* value unchanged; without ignore_case only a value that is one of the
\* choices is accepted, and returned unchanged, whatever norm_case is; every
\* other value is rejected with ValueError.
C20_StrChoice ==
    out # NoCall =>
        /\ out.exc \in {"none", "ValueError"}
        /\ cv.ignore_case =>
              /\ (out.exc = "none") = (Matches # {})
              /\ (Matches # {} /\ cv.norm_case) =>
                    out.v = PyStr(cv.choices[CHOOSE i \in Matches :
                                                \A j \in Matches : i <= j])
              /\ (Matches # {} /\ ~cv.norm_case) => out.v = PyStr(arg)
        /\ ~cv.ignore_case =>
              /\ (out.exc = "none") = (\E i \in 1..Len(cv.choices) :
                                          cv.choices[i] = arg)
              /\ out.exc = "none" => out.v = PyStr(arg)
        /\ (/\ cv.choices = <<NameAndroid, NameIOS>>
            /\ cv.ignore_case /\ cv.norm_case
            /\ arg = <<"i", "o", "s">>) => out.v = PyStr(NameIOS)

\* "IOs" has been given to a validator with choices ["ios", "iOS"],
\* ignore_case and norm_case: it returned "ios", the first of the two
C20_Witness ==
    /\ cv.choices = <<<<"i", "o", "s">>, NameIOS>>
    /\ cv.ignore_case
    /\ cv.norm_case
    /\ arg = <<"I", "O", "s">>
    /\ out = [exc |-> "none", v |-> PyStr(<<"i", "o", "s">>)]

----------------------------------------------------------------------------
(* Claims about the loops of one parse. *)

\* parse has been called and has neither returned nor raised
Running == pc \in {"leaf", "leaf_args", "node", "node_command"}

\* C21: parsing always terminates: from every state of a running parse the
\* next step of the loop either ends the parse or leaves it running with the
\* cursor of the same reader strictly nearer its end; each iteration of the
\* leaf or interior loop (a step taken with the reader not at its end)
\* consumes at least one token; a leaf parse that returns ends with the
\* reader at its end and no next command; an interior parse that returns
\* ends with a subcommand, or with the reader at its end and no next command.
C21_Terminates ==
    /\ [](Running =>
            LET nx == Step(Cur, Cmd)
            IN  \/ nx.pc \in {"returned", "raised"}
                \/ /\ nx.pc \in {"leaf", "leaf_args", "node", "node_command"}
                   /\ nx.reader.tokens = reader.tokens
                   /\ nx.reader.end = reader.end
                   /\ nx.reader.cursor > reader.cursor
                   /\ nx.reader.cursor <= reader.end)
    /\ [][(Running /\ ~ReaderIsEof(reader)) =>
            /\ reader'.tokens = reader.tokens
            /\ reader'.cursor > reader.cursor]_vars
    /\ [](pc = "returned" =>
            IF IsLeaf(Cmd) THEN result = PyNone /\ ReaderIsEof(reader)
            ELSE \/ result.t = "Command" /\ result.v \in Range(Subcommands)
                 \/ result = PyNone /\ ReaderIsEof(reader))

\* an interior parse of two tokens has ended after "--" with the reader
\* exhausted and no next command
C21_Witness ==
    /\ pc = "returned"
    /\ ~IsLeaf(Cmd)
    /\ double_hyphen
    /\ result = PyNone
    /\ ReaderIsEof(reader)
    /\ Len(Tokens) = 2

----------------------------------------------------------------------------
(* Claims about a descent with one shared Reader. *)

\* C22: when a caller parses a node and then the returned subcommand with the
\* same Reader, the tokens are consumed once each and in order: the
\* sub-level is entered with the reader as the upper level left it, just
\* after the subcommand name; no step ever moves the cursor back; every step
\* that invokes an adaptor dispatches the token just after the cursor and
\* consumes it and at most the one token after it; the invocations of the
\* upper levels are for tokens before those of the current level; and a
\* result that names no command is reached with every token consumed.
C22_SharedReader ==
    /\ [][(pc = "returned" /\ pc' # "returned") =>
            /\ reader' = reader
            /\ reader.cursor >= 1
            /\ result = ParserResult(command')
            /\ Tokens[reader.cursor] = Commands(command').name]_vars
    /\ [][pc # "ready" =>
            /\ reader'.tokens = reader.tokens
            /\ reader'.cursor >= reader.cursor
            /\ reader'.cursor <= reader.cursor + 2]_vars
    /\ [][(Running /\ Len(calls') > Len(calls)) =>
            /\ calls'[Len(calls')].at = reader.cursor + 1
            /\ reader'.cursor >= reader.cursor + 1]_vars
    /\ [](\A i \in 1..Len(earlier), j \in 1..Len(calls) :
            earlier[i].at < calls[j].at)
    /\ [](\A j \in 1..Len(calls) :
            /\ calls[j].at <= reader.cursor
            /\ j > 1 => calls[j - 1].at <= calls[j].at)
    /\ [](pc = "returned" /\ result = PyNone =>
            reader.cursor = Len(Tokens))

\* the leaf build, entered after "-v build", has bound the two tokens after
\* its name
C22_Witness ==
    /\ command = "build"
    /\ parses = 2
    /\ pc = "returned"
    /\ result = PyNone
    /\ Len(Tokens) = 4
    /\ Tokens[2] = NameBuild
    /\ earlier = <<[adaptor |-> "verbose", values |-> <<>>, at |-> 1]>>
    /\ calls = <<[adaptor |-> "all", values |-> <<>>, at |-> 3],
                 [adaptor |-> "target", values |-> <<(<<"v">>)>>, at |-> 4]>>

----------------------------------------------------------------------------
(* Claims about the dispatch of tokens within one level. *)

ArgumentAdaptors == {Arguments[i].adaptor : i \in 1..Len(Arguments)}

\* the token the next iteration of a loop reads
NextToken == Tokens[reader.cursor + 1]

\* C23: before "--" has been read at a level, a token in token position that
\* begins with "-" is never passed to the argument consumer nor resolved as a
\* subcommand name: the step that reads it leaves the argument reader where
\* it was, invokes option adaptors only, names no subcommand and does not
\* fail with "Too many arguments" or "Unknown command"; and every value
\* beginning with "-" that an argument adaptor received was read after a
\* "--" sentinel of that level.
C23_OptionsFirst ==
    /\ [][(pc \in {"leaf", "node"} /\ ~ReaderIsEof(reader)
            /\ StartsWith(NextToken, Hyphen)) =>
            /\ ~double_hyphen
            /\ areader' = areader
            /\ \A j \in (Len(calls) + 1)..Len(calls') :
                  /\ calls'[j].adaptor \in OptionAdaptors
                  /\ calls'[j].adaptor \notin ArgumentAdaptors
            /\ \A id \in ArgumentAdaptors : adaptors'[id] = adaptors[id]
            /\ result' = PyNone
            /\ pc' # "returned"
            /\ signal'.message \notin {"Too many arguments",
                                       "Unknown command"}]_vars
    /\ [](\A j \in 1..Len(calls) :
            (/\ calls[j].adaptor \in ArgumentAdaptors
             /\ calls[j].values # <<>>
             /\ StartsWith(calls[j].values[1], Hyphen)) =>
                /\ double_hyphen
                /\ \E i \in 1..(calls[j].at - 1) : Tokens[i] = DoubleHyphen)

\* build has parsed ["-a", "--", "-weird"]: the first token was taken as an
\* option, the token after the sentinel as the positional value
C23_Witness ==
    /\ command = "build"
    /\ Tokens = <<Short(<<"a">>), DoubleHyphen,
                  Short(<<"w", "e", "i", "r", "d">>)>>
    /\ pc = "returned"
    /\ Invocations(calls) =
           <<<<"all", <<>>>>,
             <<"target", <<Short(<<"w", "e", "i", "r", "d">>)>>>>>>

\* C24: at a leaf the "--" sentinel is consumed once: double_hyphen is set
\* only by the first loop reading "--" in token position, a step that
\* consumes that one token, binds it to nothing and enters the positional
\* loop; once set it stays set and the first loop is never resumed; and
\* every "--" read afterwards is passed to the argument consumer like any
\* other value: bound by one invocation of the current argument's adaptor,
\* or refused with "Too many arguments".
C24_SentinelOnce ==
    /\ [][(IsLeaf(Cmd) /\ Running /\ ~double_hyphen /\ double_hyphen') =>
            /\ pc = "leaf"
            /\ ~ReaderIsEof(reader)
            /\ NextToken = DoubleHyphen]_vars
    /\ [][(pc = "leaf" /\ ~ReaderIsEof(reader)
            /\ NextToken = DoubleHyphen) =>
            /\ double_hyphen'
            /\ pc' = "leaf_args"
            /\ reader'.cursor = reader.cursor + 1
            /\ calls' = calls
            /\ adaptors' = adaptors
            /\ areader' = areader
            /\ signal' = NoSignal]_vars
    /\ [][(Running /\ double_hyphen) =>
            double_hyphen' /\ pc' # "leaf"]_vars
    /\ [](pc = "leaf" => ~double_hyphen)
    /\ [](pc = "leaf_args" => double_hyphen)
    /\ [][(pc = "leaf_args" /\ ~ReaderIsEof(reader)
            /\ NextToken = DoubleHyphen) =>
            /\ reader'.cursor = reader.cursor + 1
            /\ IF ReaderIsEof(areader)
                 THEN /\ pc' = "raised"
                      /\ signal' = Signal("CliParsingError",
                                           "Too many arguments")
                      /\ calls' = calls
                 ELSE calls' = Append(calls,
                          [adaptor |-> areader.tokens[areader.cursor + 1].adaptor,
                           values |-> <<DoubleHyphen>>,
                           at |-> reader.cursor + 1])]_vars

\* test has parsed ["p", "--", "--"]: the first "--" was bound to nothing,
\* the second is a value of files
C24_Witness ==
    /\ command = "test"
    /\ Tokens = <<(<<"p">>), DoubleHyphen, DoubleHyphen>>
    /\ pc = "returned"
    /\ double_hyphen
    /\ Invocations(calls) = <<<<"first", <<(<<"p">>)>>>>,
                              <<"files", <<DoubleHyphen>>>>>>

\* the subcommands of the command whose name is the token
Named(token) == {sub \in Range(Subcommands) : Commands(sub).name = token}

\* C25: at an interior command, reading "--" in token position leads to the
\* step that resolves the very next token as a subcommand name, whether or
\* not it begins with a hyphen: that step consumes the one token, invokes no
\* adaptor, and ends the level with the subcommand of that name or with
\* "Unknown command"; when "--" was the last token the level ends with no
\* next command and nothing more consumed.
C25_NodeSentinel ==
    /\ [][(pc = "node" /\ ~ReaderIsEof(reader)
            /\ NextToken = DoubleHyphen) =>
            /\ pc' = "node_command"
            /\ double_hyphen'
            /\ reader'.cursor = reader.cursor + 1
            /\ calls' = calls
            /\ adaptors' = adaptors]_vars
    /\ [](pc = "node_command" =>
            /\ ~IsLeaf(Cmd)
            /\ double_hyphen
            /\ Tokens[reader.cursor] = DoubleHyphen)
    /\ [][pc = "node_command" =>
            /\ calls' = calls
            /\ adaptors' = adaptors
            /\ IF ReaderIsEof(reader)
                 THEN /\ pc' = "returned"
                      /\ result' = PyNone
                      /\ reader' = reader
                 ELSE /\ reader'.cursor = reader.cursor + 1
                      /\ IF Named(NextToken) # {}
                           THEN /\ pc' = "returned"
                                /\ result'.t = "Command"
                                /\ result'.v \in Named(NextToken)
                           ELSE /\ pc' = "raised"
                                /\ signal' = Signal("CliParsingError",
                                                     "Unknown command")
                                /\ result' = PyNone]_vars

\* app has parsed ["--", "-d", "-v"]: the level ended at the subcommand -d
\* with the last token unread and no option invoked
C25_Witness ==
    /\ command = "app"
    /\ Tokens = <<DoubleHyphen, NameDash, Short(<<"v">>)>>
    /\ pc = "returned"
    /\ result = ParserResult("-d")
    /\ reader.cursor = 2
    /\ calls = <<>>

----------------------------------------------------------------------------
(* Claims about the option consumer. *)

\* the first loop of a level is about to read a token
Scanning == pc \in {"leaf", "node"} /\ ~ReaderIsEof(reader)

\* the token is a long option with an attached value
IsLongEq(t) ==
    /\ StartsWith(t, DoubleHyphen)
    /\ t # DoubleHyphen
    /\ \E k \in 3..Len(t) : t[k] = "="

\* the position of the first "=" of the token
FirstEq(t) ==
    CHOOSE k \in 3..Len(t) : t[k] = "=" /\ \A j \in 3..(k - 1) : t[j] # "="

\* the options of the command that declare the long spelling
LongOwners(name) ==
    {i \in 1..Len(Options) : name \in Range(Options[i].long_options)}

\* C26: a long-option token containing "=" is split at its first "=": the
\* text between "--" and that "=" is the name, everything after it (possibly
\* empty, possibly with further "=") the value. The step consumes that one
\* token only. An undeclared name fails with "Unknown option"; else a
\* zero-value option fails with "does not take a value"; in both cases
\* nothing is invoked and no adaptor changes. Otherwise the option's
\* adaptor is invoked exactly once, with that single value.
C26_LongEquals ==
    [][(Scanning /\ IsLongEq(NextToken)) =>
        LET k == FirstEq(NextToken)
            name == SubSeq(NextToken, 3, k - 1)
            value == SubSeq(NextToken, k + 1, Len(NextToken))
        IN  /\ reader'.cursor = reader.cursor + 1
            /\ IF LongOwners(name) = {}
                 THEN /\ pc' = "raised"
                      /\ signal' = Signal("CliParsingError", "Unknown option")
                      /\ calls' = calls
                      /\ adaptors' = adaptors
                 ELSE \E i \in LongOwners(name) :
                        IF adaptors[Options[i].adaptor].num_values = 0
                          THEN /\ pc' = "raised"
                               /\ signal' = Signal("CliParsingError",
                                                    "does not take a value")
                               /\ calls' = calls
                               /\ adaptors' = adaptors
                          ELSE /\ calls' = Append(calls,
                                      [adaptor |-> Options[i].adaptor,
                                       values |-> <<value>>,
                                       at |-> reader.cursor + 1])
                               /\ \A id \in DOMAIN adaptors :
                                      id # Options[i].adaptor =>
                                          adaptors'[id] = adaptors[id]]_vars

\* cmd has parsed ["--name==", "--name="]: name was bound to "=" and then to
\* the empty string
C26_Witness ==
    /\ command = "cmd"
    /\ Tokens = <<LongEq(NameName, <<"=">>), LongEq(NameName, <<>>)>>
    /\ pc = "returned"
    /\ calls = <<[adaptor |-> "name", values |-> <<(<<"=">>)>>, at |-> 1],
                 [adaptor |-> "name", values |-> <<(<<>>)>>, at |-> 2]>>
    /\ adaptors["name"].value_parsed = PyStr(<<>>)
    /\ adaptors["name"].count = 2

\* the options of the command that declare the short spelling
ShortOwners(char) ==
    {i \in 1..Len(Options) : char \in Range(Options[i].short_options)}

\* the character is a declared short option of a flag that stores a value
\* and raises nothing
IsPlainFlag(char) ==
    \E i \in ShortOwners(char) :
        adaptors[Options[i].adaptor].kind \in {"OnFlag", "OffFlag", "CountFlag"}

\* the options that the token names without a value attached: a long option
\* taking a value (the token holds no "="), or a short option taking a value
\* at the end of a cluster of plain flags
BareValueOption(t) ==
    IF StartsWith(t, DoubleHyphen)
      THEN {i \in LongOwners(SubSeq(t, 3, Len(t))) :
               /\ adaptors[Options[i].adaptor].num_values = 1
               /\ ~IsLongEq(t)}
    ELSE IF StartsWith(t, Hyphen) /\ Len(t) >= 2
      THEN {i \in ShortOwners(t[Len(t)]) :
               /\ adaptors[Options[i].adaptor].num_values = 1
               /\ \A j \in 2..(Len(t) - 1) : IsPlainFlag(t[j])}
    ELSE {}

\* C27: a value-taking option named without an attached value ("--opt", or
\* the last character of a short cluster) as the final token of the input
\* fails with "requires a value": its adaptor is not invoked and keeps its
\* state. When a token follows, that one token - whatever it is - is
\* consumed as the value, in one invocation of the option's adaptor, and
\* nothing further is consumed.
C27_RequiresValue ==
    [][(Scanning /\ NextToken # DoubleHyphen
        /\ BareValueOption(NextToken) # {}) =>
        \E i \in BareValueOption(NextToken) :
            LET id == Options[i].adaptor
                mine == {j \in (Len(calls) + 1)..Len(calls') :
                            calls'[j].adaptor = id}
            IN  IF reader.cursor + 1 = reader.end
                  THEN /\ pc' = "raised"
                       /\ signal' = Signal("CliParsingError",
                                            "requires a value")
                       /\ mine = {}
                       /\ adaptors'[id] = adaptors[id]
                       /\ reader'.cursor = reader.cursor + 1
                  ELSE /\ reader'.cursor = reader.cursor + 2
                       /\ mine = {Len(calls')}
                       /\ calls'[Len(calls')] =
                              [adaptor |-> id,
                               values |-> <<Tokens[reader.cursor + 2]>>,
                               at |-> reader.cursor + 1]
                       /\ signal'.message # "requires a value"]_vars

\* cmd has parsed ["--name", "-c", "-cn"]: "-c" was consumed as the value of
\* --name, and -n at the end of the last token found no value
C27_Witness ==
    /\ command = "cmd"
    /\ Tokens = <<Long(NameName), Short(<<"c">>), Short(<<"c", "n">>)>>
    /\ pc = "raised"
    /\ signal = Signal("CliParsingError", "requires a value")
    /\ Invocations(calls) = <<<<"name", <<Short(<<"c">>)>>>>, <<"count", <<>>>>>>
    /\ adaptors["name"].value_parsed = PyStr(Short(<<"c">>))
    /\ adaptors["name"].count = 1

\* the token is a short-option cluster
IsCluster(t) == StartsWith(t, Hyphen) /\ ~StartsWith(t, DoubleHyphen)

\* the position in the cluster where the scan of plain flags ends: the first
\* character that is not a plain flag, or one past the token
ScanEnd(t) ==
    IF \A j \in 2..Len(t) : IsPlainFlag(t[j]) THEN Len(t) + 1
    ELSE CHOOSE p \in 2..Len(t) :
            ~IsPlainFlag(t[p]) /\ \A j \in 2..(p - 1) : IsPlainFlag(t[j])

\* the adaptor of the option that declares the short spelling
ShortAdaptor(char) == Options[CHOOSE i \in ShortOwners(char) : TRUE].adaptor

\* the invocations of the plain flags at positions 2..(p - 1) of the cluster
FlagCalls(t, p, at) ==
    [j \in 1..(p - 2) |->
        [adaptor |-> ShortAdaptor(t[j + 1]), values |-> <<>>, at |-> at]]

\* C28: a short-option cluster is processed from left to right. The
\* zero-value options before the first character that is not one are each
\* invoked once, in order, with no values. If that character is an
\* undeclared option the step fails with "Unknown option"; if it is a
\* value-taking option the scan ends with it: with characters remaining its
\* single value is exactly the rest of the cluster and only the cluster
\* token is consumed, otherwise its value is exactly the next outer token
\* (or the step fails with "requires a value" at the end of input). There is
\* no invocation and no lookup for a character after a value-taking option.
C28_Cluster ==
    [][(Scanning /\ IsCluster(NextToken)) =>
        LET t == NextToken
            at == reader.cursor + 1
            p == ScanEnd(t)
            flags == FlagCalls(t, p, at)
        IN  IF p = Len(t) + 1
              THEN /\ calls' = calls \o flags
                   /\ reader'.cursor = at
                   /\ pc' = pc
            ELSE IF ShortOwners(t[p]) = {}
              THEN /\ calls' = calls \o flags
                   /\ reader'.cursor = at
                   /\ pc' = "raised"
                   /\ signal' = Signal("CliParsingError", "Unknown option")
            ELSE IF adaptors[ShortAdaptor(t[p])].num_values = 0
              THEN /\ calls' = calls \o flags \o
                          <<[adaptor |-> ShortAdaptor(t[p]), values |-> <<>>,
                             at |-> at]>>
                   /\ reader'.cursor = at
                   /\ pc' = "raised"
                   /\ signal'.type = "CliMessage"
            ELSE IF p < Len(t)
              THEN /\ calls' = calls \o flags \o
                          <<[adaptor |-> ShortAdaptor(t[p]),
                             values |-> <<SubSeq(t, p + 1, Len(t))>>,
                             at |-> at]>>
                   /\ reader'.cursor = at
                   /\ signal'.type \notin {"CliParsingError", "CliMessage"}
            ELSE IF at = reader.end
              THEN /\ calls' = calls \o flags
                   /\ reader'.cursor = at
                   /\ pc' = "raised"
                   /\ signal' = Signal("CliParsingError", "requires a value")
            ELSE /\ calls' = calls \o flags \o
                        <<[adaptor |-> ShortAdaptor(t[p]),
                           values |-> <<Tokens[at + 1]>>, at |-> at]>>
                 /\ reader'.cursor = at + 1
                 /\ signal'.type \notin {"CliParsingError", "CliMessage"}]_vars

\* cmd has parsed ["-cnc", "x"]: -c was invoked, -n took the rest of the
\* cluster, "c", as its value, and the next token was left for the loop
C28_Witness ==
    /\ command = "cmd"
    /\ Tokens = <<Short(<<"c", "n", "c">>), <<"x">>>>
    /\ reader.cursor = 1
    /\ pc = "leaf"
    /\ calls = <<[adaptor |-> "count", values |-> <<>>, at |-> 1],
                 [adaptor |-> "name", values |-> <<(<<"c">>)>>, at |-> 1]>>
    /\ adaptors["count"].value_parsed = PyInt(1)
    /\ adaptors["name"].value_parsed = PyStr(<<"c">>)

----------------------------------------------------------------------------
(* Claims about the argument consumer. *)

\* the next iteration passes its token to the argument consumer
Positional ==
    /\ IsLeaf(Cmd)
    /\ ~ReaderIsEof(reader)
    /\ \/ pc = "leaf_args"
       \/ pc = "leaf" /\ ~StartsWith(NextToken, Hyphen)

\* the position of the first multiple argument in declaration order, or one
\* past the declarations
FirstMultiple ==
    IF \A i \in 1..Len(Arguments) : ~Arguments[i].multiple
      THEN Len(Arguments) + 1
    ELSE CHOOSE m \in 1..Len(Arguments) :
            Arguments[m].multiple /\ \A i \in 1..(m - 1) : ~Arguments[i].multiple

IsArgumentCall(c) == c.adaptor \in ArgumentAdaptors

\* the invocations of argument adaptors made by this parse, in order
ArgumentCalls == SelectSeq(calls, IsArgumentCall)

\* C29: positional tokens are bound to the arguments in declaration order
\* across the argument groups: the n-th positional token goes, in one
\* invocation with that token as the single value, to the n-th declared
\* argument, or to the first multiple argument once that is reached; the
\* position advances past a non-multiple argument and stays on a multiple
\* one, so a non-multiple argument is invoked at most once and an argument
\* declared after a multiple one is never invoked; a positional token that
\* finds no declaration left fails with "Too many arguments" and invokes
\* nothing.
C29_Positionals ==
    /\ [](pc # "ready" => areader.tokens = Flatten(Cmd.argument_groups))
    /\ [][Positional =>
            LET k == areader.cursor
            IN  /\ reader'.cursor = reader.cursor + 1
                /\ IF k = Len(Arguments)
                     THEN /\ pc' = "raised"
                          /\ signal' = Signal("CliParsingError",
                                               "Too many arguments")
                          /\ calls' = calls
                          /\ adaptors' = adaptors
                          /\ areader' = areader
                     ELSE /\ calls' = Append(calls,
                                 [adaptor |-> Arguments[k + 1].adaptor,
                                  values |-> <<NextToken>>,
                                  at |-> reader.cursor + 1])
                          /\ pc' # "raised" =>
                                areader'.cursor =
                                    IF Arguments[k + 1].multiple THEN k
                                    ELSE k + 1]_vars
    /\ [](\A n \in 1..Len(ArgumentCalls) :
            /\ n <= Len(Arguments) \/ FirstMultiple <= Len(Arguments)
            /\ ArgumentCalls[n].adaptor =
                   Arguments[IF n < FirstMultiple THEN n
                             ELSE FirstMultiple].adaptor)
    /\ [](pc \notin {"ready", "raised"} =>
            /\ areader.cursor <= Len(Arguments)
            /\ areader.cursor < FirstMultiple
            /\ \A i \in 1..Len(Arguments) :
                  /\ ~Arguments[i].multiple =>
                        adaptors[Arguments[i].adaptor].count <= 1
                  /\ i > FirstMultiple =>
                        adaptors[Arguments[i].adaptor].count = 0)

\* copy has parsed ["a", "b", "a"]: src took the first token, the multiple
\* items the two after it, and dest, declared after items, none
C29_Witness ==
    /\ command = "copy"
    /\ Tokens = <<(<<"a">>), <<"b">>, <<"a">>>>
    /\ pc = "returned"
    /\ Invocations(calls) = <<<<"src", <<(<<"a">>)>>>>,
                              <<"items", <<(<<"b">>)>>>>,
                              <<"items", <<(<<"a">>)>>>>>>
    /\ adaptors["items"].value_parsed = PyList(<<PyStr(<<"b">>), PyStr(<<"a">>)>>)
    /\ adaptors["dest"].count = 0
    /\ areader.cursor = 1

----------------------------------------------------------------------------
(* Claims about the bounds of the Reader. *)

\* C30: a constructed Reader always has 0 <= start <= cursor <= end <=
\* len(tokens), after construction and after every get and put; a get or put
\* that fails with IndexError leaves the cursor where it was; and
\* construction is rejected exactly when start < 0, end > len(tokens) or
\* start > end (None standing for 0 and len(tokens)), a Reader constructed
\* otherwise holding those bounds with the cursor at start.
C30_CursorBounds ==
    /\ ctor = "ok" =>
          /\ 0 <= reader.start
          /\ reader.start <= reader.cursor
          /\ reader.cursor <= reader.end
          /\ reader.end <= Len(reader.tokens)
    /\ (ret.op \in {"get", "put"} /\ ret.exc = "IndexError") =>
          reader.cursor = ret.at
    /\ ret.op = "init" =>
          LET toks == ret.val[1]
              start0 == IF ret.val[2] = NoneArg THEN 0 ELSE ret.val[2][1]
              end0 == IF ret.val[3] = NoneArg THEN Len(toks) ELSE ret.val[3][1]
          IN  IF start0 < 0 \/ end0 > Len(toks) \/ start0 > end0
                THEN ctor = "ValueError" /\ ret.exc = "ValueError"
                ELSE /\ ctor = "ok"
                     /\ reader = [tokens |-> toks, start |-> start0,
                                  end |-> end0, cursor |-> start0]

\* a put has failed at a start bound above 0, after tokens were read up to an
\* end bound below len(tokens) and put back
C30_Witness ==
    /\ ret.op = "put"
    /\ ret.exc = "IndexError"
    /\ reader.start > 0
    /\ reader.cursor = reader.start
    /\ reader.end < Len(reader.tokens)
    /\ DOMAIN seen = reader.start..(reader.end - 1)
    /\ reader.end > reader.start

----------------------------------------------------------------------------
(* Claims about the cursors during a parse. *)

\* C31: during a parse the cursor of the token reader never moves
\* backwards: every iteration of a loop, whether it goes on, returns or
\* raises, moves it forward by exactly 1 or 2 within the same tokens and
\* bounds; the return at the end of input leaves it; only the cursor of the
\* argument reader is ever put back, and by no more than the one step it
\* had just advanced.
C31_ForwardOnly ==
    /\ [][Running =>
            /\ reader'.tokens = reader.tokens
            /\ reader'.start = reader.start
            /\ reader'.end = reader.end
            /\ IF ReaderIsEof(reader) THEN reader'.cursor = reader.cursor
               ELSE reader'.cursor \in {reader.cursor + 1, reader.cursor + 2}
            /\ areader'.tokens = areader.tokens
            /\ areader'.cursor \in {areader.cursor, areader.cursor + 1}]_vars
    /\ [](pc # "ready" => reader.cursor <= reader.end)

\* test has bound three positional tokens, two of them to the multiple
\* files: the token cursor is at 3 and the argument cursor was put back to 1
C31_Witness ==
    /\ command = "test"
    /\ pc = "leaf"
    /\ reader.cursor = 3
    /\ areader.cursor = 1
    /\ Len(calls) = 3
    /\ calls[3].adaptor = "files"
    /\ adaptors["files"].count = 2

----------------------------------------------------------------------------
(* Claims about rejected values and aborted parses. *)

\* C32: a call of a value-taking adaptor (scalar or list) whose validator
\* rejects the value leaves the adaptor's value, count and source exactly as
\* they were before the call.
C32_RejectionLeaves ==
    [][(/\ driver.num_values = 1
        /\ Len(applied') = Len(applied) + 1
        /\ applied'[Len(applied')].exc.type = "ValueError") =>
            /\ driver'.value_parsed = driver.value_parsed
            /\ driver'.count = driver.count
            /\ driver'.value_source = driver.value_source]_vars

\* the invocations of the adaptor in this parse that reached its bookkeeping:
\* all of them, but for a last one that ended in an error of the adaptor
Recorded(id) ==
    Cardinality({j \in 1..Len(calls) :
        /\ calls[j].adaptor = id
        /\ ~(/\ j = Len(calls)
             /\ signal.type \in {"ValueError", "AssertionError"})})

\* C33: a failed parse is not rolled back. The step that raises leaves the
\* token reader past the failing token, does not move the argument reader
\* back, keeps the invocations made so far and every adaptor it did not
\* itself invoke as earlier tokens left them; and in the state a parse has
\* raised in, each adaptor's count is what it was on entry plus its
\* invocations for earlier tokens and earlier cluster characters, with the
\* source CLI once invoked.
C33_NoRollback ==
    /\ [][(Running /\ pc' = "raised") =>
            /\ reader'.cursor > reader.cursor
            /\ areader'.cursor >= areader.cursor
            /\ SubSeq(calls', 1, Len(calls)) = calls
            /\ \A id \in DOMAIN adaptors :
                  (\A j \in (Len(calls) + 1)..Len(calls') :
                      calls'[j].adaptor # id) => adaptors'[id] = adaptors[id]]_vars
    /\ [](pc = "raised" =>
            /\ \A id \in DOMAIN adaptors :
                  /\ adaptors[id].count =
                         entry.adaptors[id].count + Recorded(id)
                  /\ Recorded(id) > 0 => adaptors[id].value_source = CLI
            /\ \A j \in 1..Len(calls) : calls[j].at <= reader.cursor
            /\ areader.cursor >= entry.areader.cursor)

\* build has parsed ["v", "-ab", "-ahb"]: the parse ended at the help flag
\* in the last cluster, and target, all (twice) and brief keep what the
\* earlier tokens and the earlier character gave them
C33_Witness ==
    /\ command = "build"
    /\ Tokens = <<(<<"v">>), Short(<<"a", "b">>), Short(<<"a", "h", "b">>)>>
    /\ pc = "raised"
    /\ signal.type = "CliMessage"
    /\ adaptors["target"].value_parsed = PyStr(<<"v">>)
    /\ adaptors["all"].count = 2
    /\ adaptors["brief"].count = 1
    /\ adaptors["brief"].value_parsed = PyBool(FALSE)
    /\ areader.cursor = 1
    /\ reader.cursor = 3

----------------------------------------------------------------------------
(* Claims about single tokens in option-scanning position. *)

\* C34: the token "-" read by the first loop of a level is consumed and
\* nothing else happens: no adaptor is invoked or changed, the token is not
\* bound to an argument nor resolved as a subcommand, no error is raised;
\* apart from the cursor of the token reader the parse state is unchanged.
C34_LoneHyphen ==
    [][(Scanning /\ NextToken = Hyphen) =>
        /\ reader' = [reader EXCEPT !.cursor = @ + 1]
        /\ pc' = pc
        /\ areader' = areader
        /\ adaptors' = adaptors
        /\ calls' = calls
        /\ double_hyphen' = double_hyphen
        /\ result' = result
        /\ signal' = NoSignal]_vars

\* app has parsed ["-", "-", "test"]: both hyphens were passed over and the
\* level ended at the subcommand
C34_Witness ==
    /\ command = "app"
    /\ Tokens = <<Hyphen, Hyphen, NameTest>>
    /\ pc = "returned"
    /\ result = ParserResult("test")
    /\ calls = <<>>
    /\ adaptors = entry.adaptors

\* the next step reads a value-taking option named without an attached
\* value, and a token follows it
TakesNextToken ==
    /\ Scanning
    /\ NextToken # DoubleHyphen
    /\ BareValueOption(NextToken) # {}
    /\ reader.cursor + 2 <= reader.end

\* C35: a value-taking option named without an attached value takes the
\* token after it as its value whatever that token is - "--", a token that
\* begins with "-", the name of a subcommand - in the same step, and the
\* token gets no other treatment: among the invocations of the step only
\* the option's carries a value, the sentinel flag is not set, no argument
\* is bound, no subcommand is returned, and scanning resumes after it
\* (unless the option's validator rejects the value). So for an input that
\* starts with such an option the cursor is never between the first two
\* tokens and nothing is ever invoked for the second.
C35_ValueUnconditional ==
    /\ [][TakesNextToken =>
            \E i \in BareValueOption(NextToken) :
                LET id == Options[i].adaptor
                    new == (Len(calls) + 1)..Len(calls')
                IN  /\ reader'.cursor = reader.cursor + 2
                    /\ Len(calls') > Len(calls)
                    /\ calls'[Len(calls')] =
                           [adaptor |-> id,
                            values |-> <<Tokens[reader.cursor + 2]>>,
                            at |-> reader.cursor + 1]
                    /\ \A k \in new \ {Len(calls')} : calls'[k].values = <<>>
                    /\ double_hyphen' = FALSE
                    /\ areader' = areader
                    /\ result' = PyNone
                    /\ pc' \in {pc, "raised"}
                    /\ signal'.type \notin {"CliParsingError", "CliMessage"}]_vars
    /\ []((/\ pc # "ready"
           /\ reader.cursor >= 1
           /\ Len(Tokens) >= 2
           /\ Tokens[1] # DoubleHyphen
           /\ BareValueOption(Tokens[1]) # {}) =>
              /\ reader.cursor >= 2
              /\ \E k \in 1..Len(calls) :
                    calls[k].at = 1 /\ calls[k].values = <<Tokens[2]>>
              /\ \A k \in 1..Len(calls) : calls[k].at # 2
              /\ reader.cursor = 2 =>
                    /\ ~double_hyphen
                    /\ result = PyNone
                    /\ areader.cursor = areader.start)

\* run has parsed ["-C", "build", "build"]: the first "build" became the
\* value of -C and the second one was returned as the subcommand
C35_Witness ==
    /\ command = "run"
    /\ Tokens = <<Short(<<"C">>), NameBuild, NameBuild>>
    /\ pc = "returned"
    /\ result = ParserResult("build")
    /\ reader.cursor = 3
    /\ calls = <<[adaptor |-> "dir", values |-> <<NameBuild>>, at |-> 1]>>
    /\ adaptors["dir"].value_parsed = PyStr(NameBuild)

----------------------------------------------------------------------------
(* Claims about the argument reader across calls of parse. *)

\* the argument was the target of an invocation in an earlier call of parse
BoundEarlier(id) == \E k \in 1..Len(earlier) : earlier[k].adaptor = id

\* every non-multiple argument was bound in an earlier call of parse
SinglesBound ==
    \A i \in 1..Len(Arguments) :
        ~Arguments[i].multiple => BoundEarlier(Arguments[i].adaptor)

\* a later call of parse is about to pass a token to the argument consumer
\* after every non-multiple argument was bound
LaterPositional == Positional /\ parses >= 2 /\ SinglesBound

\* a call of parse starts with the argument reader where the call before
\* left it (at its start for the first call)
CarriedOver ==
    /\ [][parses' = parses + 1 =>
            /\ areader' = areader
            /\ entry'.areader = areader]_vars
    /\ [](parses = 0 => areader.cursor = areader.start)

----------------------------------------------------------------------------
(* Claims about the two families of binders. *)

\* Driver.present
DriverPresent(d) == d.count > 0

\* C37: a Driver of drivers.py and the Adaptor of adaptors.py of the same
\* variant, constructed with the same arguments and given the same sequence
\* of calls, agree after every call: same value, same count, same present
\* flag, same exception raised by the last call, and the type of the
\* Driver's Source is the member of the same name as the Adaptor's
\* ValueSource.
C37_Equivalent ==
    /\ twin.kind = driver.kind
    /\ twin.num_values = driver.num_values
    /\ twin.value_parsed = driver.value_parsed
    /\ twin.count = driver.count
    /\ DriverPresent(twin) = Present(driver)
    /\ twin.source.type = driver.value_source
    /\ applied # <<>> => twin_raised = applied[Len(applied)].exc

\* a list binder of integers was called with "7" from
\* the environment, with "q" (rejected), and with "7" from the command line
C37_Witness ==
    /\ driver.kind = "List"
    /\ Len(applied) = 3
    /\ applied[1].exc = NoSignal
    /\ applied[2].exc.type = "ValueError"
    /\ applied[3].source = CLI
    /\ twin.value_parsed = PyList(<<PyInt(7), PyInt(7)>>)
    /\ twin.count = 2
    /\ twin.source = Source("--name", "CLI")
    /\ twin_raised = NoSignal

====
